---- MODULE Spec2Model ----
(***************************************************************************)
(* Abilities of Dungeon Crawl Stone Soup (ability.cc): the registry of     *)
(* ability definitions, the attempt pipeline (activate_talent,             *)
(* _check_ability_possible, _do_ability, _pay_ability_costs) and the       *)
(* hotkey slot table (your_talents, find_ability_slot, ...).               *)
(***************************************************************************)
EXTENDS Integers, Sequences, FiniteSets, TLC

VARIABLES you, crawl_state, Options, talents, built, died, att, call

vars == <<you, crawl_state, Options, talents, built, died, att, call>>

(***************************************************************************)
(* Costs.  generic_cost is base + random2avg(add, rolls); scaling_cost is  *)
(* a per-mille share of a maximum, or a fixed amount when negative.        *)
(***************************************************************************)
generic_cost(num) ==
    [base |-> num, add |-> IF num = 0 THEN 0 ELSE (num + 1) \div 2 + 1, rolls |-> 1]

generic_cost_fixed(fixed) ==
    [base |-> fixed, add |-> 0, rolls |-> 1]

\* range with one value too many
generic_cost_range_one_wider(low, high) ==
    [base |-> low, add |-> high - low + 2, rolls |-> 1]

generic_cost_range(low, high) ==
    [base |-> low, add |-> high - low + 1, rolls |-> 1]

scaling_cost(permille) ==
    [value |-> permille]

\* fixed without the sign that marks a fixed amount
scaling_cost_fixed_unmarked(fixed) ==
    [value |-> fixed]

scaling_cost_fixed(fixed) ==
    [value |-> 0 - fixed]

\* the mutation of ability_def that loses the identity of the entry
ability_def_without_identity(ability, name, mp_cost, hp_cost, food_cost, piety_cost, flags) ==
    [ability |-> "ABIL_NON_ABILITY", name |-> name, mp_cost |-> mp_cost,
     hp_cost |-> hp_cost, food_cost |-> food_cost, piety_cost |-> piety_cost,
     flags |-> flags]

ability_def(ability, name, mp_cost, hp_cost, food_cost, piety_cost, flags) ==
    [ability |-> ability, name |-> name, mp_cost |-> mp_cost, hp_cost |-> hp_cost,
     food_cost |-> food_cost, piety_cost |-> piety_cost, flags |-> flags]

Ability_List == <<
    ability_def("ABIL_NON_ABILITY", "No ability", 0, scaling_cost(0), 0, generic_cost(0), {}),
    ability_def("ABIL_SPIT_POISON", "Spit Poison", 0, scaling_cost(0), 40, generic_cost(0), {"BREATH"}),
    ability_def("ABIL_BLINK", "Blink", 0, scaling_cost(50), 50, generic_cost(0), {}),
    ability_def("ABIL_BREATHE_FIRE", "Breathe Fire", 0, scaling_cost(0), 125, generic_cost(0), {"BREATH"}),
    ability_def("ABIL_BREATHE_FROST", "Breathe Frost", 0, scaling_cost(0), 125, generic_cost(0), {"BREATH"}),
    ability_def("ABIL_BREATHE_POISON", "Breathe Poison Gas", 0, scaling_cost(0), 125, generic_cost(0), {"BREATH"}),
    ability_def("ABIL_BREATHE_MEPHITIC", "Breathe Noxious Fumes", 0, scaling_cost(0), 125, generic_cost(0), {"BREATH"}),
    ability_def("ABIL_BREATHE_LIGHTNING", "Breathe Lightning", 0, scaling_cost(0), 125, generic_cost(0), {"BREATH"}),
    ability_def("ABIL_BREATHE_POWER", "Breathe Dispelling Energy", 0, scaling_cost(0), 125, generic_cost(0), {"BREATH"}),
    ability_def("ABIL_BREATHE_STICKY_FLAME", "Breathe Sticky Flame", 0, scaling_cost(0), 125, generic_cost(0), {"BREATH"}),
    ability_def("ABIL_BREATHE_STEAM", "Breathe Steam", 0, scaling_cost(0), 75, generic_cost(0), {"BREATH"}),
    ability_def("ABIL_TRAN_BAT", "Bat Form", 2, scaling_cost(0), 0, generic_cost(0), {}),
    ability_def("ABIL_SPIT_ACID", "Spit Acid", 0, scaling_cost(0), 125, generic_cost(0), {"BREATH"}),
    ability_def("ABIL_FLY", "Fly", 3, scaling_cost(0), 100, generic_cost(0), {}),
    ability_def("ABIL_STOP_FLYING", "Stop Flying", 0, scaling_cost(0), 0, generic_cost(0), {}),
    ability_def("ABIL_HELLFIRE", "Hellfire", 0, scaling_cost(150), 200, generic_cost(0), {}),
    ability_def("ABIL_DELAYED_FIREBALL", "Release Delayed Fireball", 0, scaling_cost(0), 0, generic_cost(0), {"INSTANT"}),
    ability_def("ABIL_STOP_SINGING", "Stop Singing", 0, scaling_cost(0), 0, generic_cost(0), {}),
    ability_def("ABIL_MUMMY_RESTORATION", "Self-Restoration", 1, scaling_cost(0), 0, generic_cost(0), {"PERMANENT_MP"}),
    ability_def("ABIL_DIG", "Dig", 0, scaling_cost(0), 0, generic_cost(0), {"INSTANT"}),
    ability_def("ABIL_SHAFT_SELF", "Shaft Self", 0, scaling_cost(0), 250, generic_cost(0), {"DELAY"}),
    ability_def("ABIL_EVOKE_BLINK", "Evoke Blink", 1, scaling_cost(0), 50, generic_cost(0), {}),
    ability_def("ABIL_RECHARGING", "Device Recharging", 1, scaling_cost(0), 0, generic_cost(0), {"PERMANENT_MP"}),
    ability_def("ABIL_EVOKE_BERSERK", "Evoke Berserk Rage", 0, scaling_cost(0), 0, generic_cost(0), {}),
    ability_def("ABIL_EVOKE_TURN_INVISIBLE", "Evoke Invisibility", 2, scaling_cost(0), 250, generic_cost(0), {}),
    ability_def("ABIL_EVOKE_TURN_VISIBLE", "Turn Visible", 0, scaling_cost(0), 0, generic_cost(0), {}),
    ability_def("ABIL_EVOKE_FLIGHT", "Evoke Flight", 1, scaling_cost(0), 100, generic_cost(0), {}),
    ability_def("ABIL_EVOKE_FOG", "Evoke Fog", 2, scaling_cost(0), 250, generic_cost(0), {}),
    ability_def("ABIL_END_TRANSFORMATION", "End Transformation", 0, scaling_cost(0), 0, generic_cost(0), {}),
    ability_def("ABIL_ZIN_RECITE", "Recite", 0, scaling_cost(0), 0, generic_cost(0), {"BREATH"}),
    ability_def("ABIL_ZIN_VITALISATION", "Vitalisation", 2, scaling_cost(0), 0, generic_cost(1), {}),
    ability_def("ABIL_ZIN_IMPRISON", "Imprison", 5, scaling_cost(0), 125, generic_cost(4), {}),
    ability_def("ABIL_ZIN_SANCTUARY", "Sanctuary", 7, scaling_cost(0), 150, generic_cost(15), {}),
    ability_def("ABIL_ZIN_CURE_ALL_MUTATIONS", "Cure All Mutations", 0, scaling_cost(0), 0, generic_cost(0), {}),
    ability_def("ABIL_ZIN_DONATE_GOLD", "Donate Gold", 0, scaling_cost(0), 0, generic_cost(0), {}),
    ability_def("ABIL_TSO_DIVINE_SHIELD", "Divine Shield", 3, scaling_cost(0), 50, generic_cost(2), {}),
    ability_def("ABIL_TSO_CLEANSING_FLAME", "Cleansing Flame", 5, scaling_cost(0), 100, generic_cost(2), {}),
    ability_def("ABIL_TSO_SUMMON_DIVINE_WARRIOR", "Summon Divine Warrior", 8, scaling_cost(0), 150, generic_cost(5), {}),
    ability_def("ABIL_TSO_BLESS_WEAPON", "Brand Weapon With Holy Wrath", 0, scaling_cost(0), 0, generic_cost(0), {}),
    ability_def("ABIL_KIKU_RECEIVE_CORPSES", "Receive Corpses", 3, scaling_cost(0), 50, generic_cost(2), {}),
    ability_def("ABIL_KIKU_TORMENT", "Torment", 4, scaling_cost(0), 0, generic_cost(8), {}),
    ability_def("ABIL_KIKU_GIFT_NECRONOMICON", "Receive Necronomicon", 0, scaling_cost(0), 0, generic_cost(0), {}),
    ability_def("ABIL_KIKU_BLESS_WEAPON", "Brand Weapon With Pain", 0, scaling_cost(0), 0, generic_cost(0), {"PAIN"}),
    ability_def("ABIL_YRED_INJURY_MIRROR", "Injury Mirror", 0, scaling_cost(0), 0, generic_cost(0), {"PIETY"}),
    ability_def("ABIL_YRED_ANIMATE_REMAINS", "Animate Remains", 2, scaling_cost(0), 50, generic_cost(0), {}),
    ability_def("ABIL_YRED_RECALL_UNDEAD_SLAVES", "Recall Undead Slaves", 2, scaling_cost(0), 50, generic_cost(0), {}),
    ability_def("ABIL_YRED_ANIMATE_DEAD", "Animate Dead", 2, scaling_cost(0), 50, generic_cost(0), {}),
    ability_def("ABIL_YRED_DRAIN_LIFE", "Drain Life", 6, scaling_cost(0), 200, generic_cost(2), {}),
    ability_def("ABIL_YRED_ENSLAVE_SOUL", "Enslave Soul", 8, scaling_cost(0), 150, generic_cost(4), {}),
    ability_def("ABIL_OKAWARU_HEROISM", "Heroism", 2, scaling_cost(0), 50, generic_cost(1), {}),
    ability_def("ABIL_OKAWARU_FINESSE", "Finesse", 5, scaling_cost(0), 100, generic_cost(3), {}),
    ability_def("ABIL_MAKHLEB_MINOR_DESTRUCTION", "Minor Destruction", 0, scaling_cost_fixed(1), 20, generic_cost(0), {}),
    ability_def("ABIL_MAKHLEB_LESSER_SERVANT_OF_MAKHLEB", "Lesser Servant of Makhleb", 0, scaling_cost_fixed(4), 50, generic_cost(2), {"HOSTILE"}),
    ability_def("ABIL_MAKHLEB_MAJOR_DESTRUCTION", "Major Destruction", 0, scaling_cost_fixed(6), 100, generic_cost_range(0, 1), {}),
    ability_def("ABIL_MAKHLEB_GREATER_SERVANT_OF_MAKHLEB", "Greater Servant of Makhleb", 0, scaling_cost_fixed(10), 100, generic_cost(5), {"HOSTILE"}),
    ability_def("ABIL_SIF_MUNA_CHANNEL_ENERGY", "Channel Energy", 0, scaling_cost(0), 100, generic_cost(0), {}),
    ability_def("ABIL_SIF_MUNA_FORGET_SPELL", "Forget Spell", 5, scaling_cost(0), 0, generic_cost(8), {}),
    ability_def("ABIL_TROG_BURN_SPELLBOOKS", "Burn Spellbooks", 0, scaling_cost(0), 10, generic_cost(0), {}),
    ability_def("ABIL_TROG_BERSERK", "Berserk", 0, scaling_cost(0), 200, generic_cost(0), {}),
    ability_def("ABIL_TROG_REGEN_MR", "Trog's Hand", 0, scaling_cost(0), 50, generic_cost(2), {}),
    ability_def("ABIL_TROG_BROTHERS_IN_ARMS", "Brothers in Arms", 0, scaling_cost(0), 100, generic_cost_range(5, 6), {}),
    ability_def("ABIL_ELYVILON_LIFESAVING", "Divine Protection", 0, scaling_cost(0), 0, generic_cost(0), {}),
    ability_def("ABIL_ELYVILON_LESSER_HEALING", "Lesser Healing", 1, scaling_cost(0), 100, generic_cost_range(0, 1), {"CONF_OK"}),
    ability_def("ABIL_ELYVILON_HEAL_OTHER", "Heal Other", 2, scaling_cost(0), 250, generic_cost(2), {}),
    ability_def("ABIL_ELYVILON_PURIFICATION", "Purification", 3, scaling_cost(0), 300, generic_cost(3), {"CONF_OK"}),
    ability_def("ABIL_ELYVILON_GREATER_HEALING", "Greater Healing", 2, scaling_cost(0), 250, generic_cost(3), {"CONF_OK"}),
    ability_def("ABIL_ELYVILON_DIVINE_VIGOUR", "Divine Vigour", 0, scaling_cost(0), 600, generic_cost(6), {"CONF_OK"}),
    ability_def("ABIL_LUGONU_ABYSS_EXIT", "Depart the Abyss", 1, scaling_cost(0), 150, generic_cost(10), {}),
    ability_def("ABIL_LUGONU_BEND_SPACE", "Bend Space", 1, scaling_cost(0), 50, generic_cost(0), {"PAIN"}),
    ability_def("ABIL_LUGONU_BANISH", "Banish", 4, scaling_cost(0), 200, generic_cost_range(3, 4), {}),
    ability_def("ABIL_LUGONU_CORRUPT", "Corrupt", 7, scaling_cost_fixed(5), 500, generic_cost(10), {}),
    ability_def("ABIL_LUGONU_ABYSS_ENTER", "Enter the Abyss", 9, scaling_cost(0), 500, generic_cost_fixed(35), {"PAIN"}),
    ability_def("ABIL_LUGONU_BLESS_WEAPON", "Brand Weapon With Distortion", 0, scaling_cost(0), 0, generic_cost(0), {}),
    ability_def("ABIL_NEMELEX_TRIPLE_DRAW", "Triple Draw", 2, scaling_cost(0), 100, generic_cost(2), {}),
    ability_def("ABIL_NEMELEX_DEAL_FOUR", "Deal Four", 8, scaling_cost(0), 200, generic_cost(8), {}),
    ability_def("ABIL_NEMELEX_STACK_FIVE", "Stack Five", 5, scaling_cost(0), 250, generic_cost(10), {}),
    ability_def("ABIL_BEOGH_SMITING", "Smiting", 3, scaling_cost(0), 80, generic_cost_fixed(3), {}),
    ability_def("ABIL_BEOGH_RECALL_ORCISH_FOLLOWERS", "Recall Orcish Followers", 2, scaling_cost(0), 50, generic_cost(0), {}),
    ability_def("ABIL_BEOGH_GIFT_ITEM", "Give Item to Named Follower", 0, scaling_cost(0), 0, generic_cost(0), {}),
    ability_def("ABIL_JIYVA_CALL_JELLY", "Request Jelly", 2, scaling_cost(0), 20, generic_cost(1), {}),
    ability_def("ABIL_JIYVA_JELLY_PARALYSE", "Jelly Paralyse", 3, scaling_cost(0), 0, generic_cost(0), {"PIETY"}),
    ability_def("ABIL_JIYVA_SLIMIFY", "Slimify", 4, scaling_cost(0), 100, generic_cost(8), {}),
    ability_def("ABIL_JIYVA_CURE_BAD_MUTATION", "Cure Bad Mutation", 8, scaling_cost(0), 200, generic_cost(15), {}),
    ability_def("ABIL_FEDHAS_EVOLUTION", "Evolution", 2, scaling_cost(0), 0, generic_cost(0), {"VARIABLE_FRUIT"}),
    ability_def("ABIL_FEDHAS_SUNLIGHT", "Sunlight", 2, scaling_cost(0), 50, generic_cost(0), {}),
    ability_def("ABIL_FEDHAS_PLANT_RING", "Growth", 2, scaling_cost(0), 0, generic_cost(0), {"FRUIT"}),
    ability_def("ABIL_FEDHAS_SPAWN_SPORES", "Reproduction", 4, scaling_cost(0), 100, generic_cost(1), {}),
    ability_def("ABIL_FEDHAS_RAIN", "Rain", 4, scaling_cost(0), 150, generic_cost(4), {}),
    ability_def("ABIL_CHEIBRIADOS_TIME_BEND", "Bend Time", 3, scaling_cost(0), 50, generic_cost(1), {}),
    ability_def("ABIL_CHEIBRIADOS_DISTORTION", "Temporal Distortion", 4, scaling_cost(0), 200, generic_cost(3), {"INSTANT"}),
    ability_def("ABIL_CHEIBRIADOS_SLOUCH", "Slouch", 5, scaling_cost(0), 100, generic_cost(8), {}),
    ability_def("ABIL_CHEIBRIADOS_TIME_STEP", "Step From Time", 10, scaling_cost(0), 200, generic_cost(10), {}),
    ability_def("ABIL_ASHENZARI_SCRYING", "Scrying", 4, scaling_cost(0), 50, generic_cost(2), {"INSTANT"}),
    ability_def("ABIL_ASHENZARI_TRANSFER_KNOWLEDGE", "Transfer Knowledge", 0, scaling_cost(0), 0, generic_cost(10), {}),
    ability_def("ABIL_ASHENZARI_END_TRANSFER", "End Transfer Knowledge", 0, scaling_cost(0), 0, generic_cost(0), {}),
    ability_def("ABIL_DITHMENOS_SHADOW_STEP", "Shadow Step", 4, scaling_cost(0), 0, generic_cost(4), {}),
    ability_def("ABIL_DITHMENOS_SHADOW_FORM", "Shadow Form", 9, scaling_cost(0), 0, generic_cost(10), {"SKILL_DRAIN"}),
    ability_def("ABIL_RU_DRAW_OUT_POWER", "Draw Out Power", 0, scaling_cost(0), 0, generic_cost(0), {"EXHAUSTION", "SKILL_DRAIN", "CONF_OK"}),
    ability_def("ABIL_RU_POWER_LEAP", "Power Leap", 5, scaling_cost(0), 0, generic_cost(0), {"EXHAUSTION"}),
    ability_def("ABIL_RU_APOCALYPSE", "Apocalypse", 8, scaling_cost(0), 0, generic_cost(0), {"EXHAUSTION", "SKILL_DRAIN"}),
    ability_def("ABIL_RU_SACRIFICE_PURITY", "Sacrifice Purity", 0, scaling_cost(0), 0, generic_cost(0), {"SACRIFICE"}),
    ability_def("ABIL_RU_SACRIFICE_WORDS", "Sacrifice Words", 0, scaling_cost(0), 0, generic_cost(0), {"SACRIFICE"}),
    ability_def("ABIL_RU_SACRIFICE_DRINK", "Sacrifice Drink", 0, scaling_cost(0), 0, generic_cost(0), {"SACRIFICE"}),
    ability_def("ABIL_RU_SACRIFICE_ESSENCE", "Sacrifice Essence", 0, scaling_cost(0), 0, generic_cost(0), {"SACRIFICE"}),
    ability_def("ABIL_RU_SACRIFICE_HEALTH", "Sacrifice Health", 0, scaling_cost(0), 0, generic_cost(0), {"SACRIFICE"}),
    ability_def("ABIL_RU_SACRIFICE_STEALTH", "Sacrifice Stealth", 0, scaling_cost(0), 0, generic_cost(0), {"SACRIFICE"}),
    ability_def("ABIL_RU_SACRIFICE_ARTIFICE", "Sacrifice Artifice", 0, scaling_cost(0), 0, generic_cost(0), {"SACRIFICE"}),
    ability_def("ABIL_RU_SACRIFICE_LOVE", "Sacrifice Love", 0, scaling_cost(0), 0, generic_cost(0), {"SACRIFICE"}),
    ability_def("ABIL_RU_SACRIFICE_COURAGE", "Sacrifice Courage", 0, scaling_cost(0), 0, generic_cost(0), {"SACRIFICE"}),
    ability_def("ABIL_RU_SACRIFICE_ARCANA", "Sacrifice Arcana", 0, scaling_cost(0), 0, generic_cost(0), {"SACRIFICE"}),
    ability_def("ABIL_RU_SACRIFICE_NIMBLENESS", "Sacrifice Nimbleness", 0, scaling_cost(0), 0, generic_cost(0), {"SACRIFICE"}),
    ability_def("ABIL_RU_SACRIFICE_DURABILITY", "Sacrifice Durability", 0, scaling_cost(0), 0, generic_cost(0), {"SACRIFICE"}),
    ability_def("ABIL_RU_SACRIFICE_HAND", "Sacrifice a Hand", 0, scaling_cost(0), 0, generic_cost(0), {"SACRIFICE"}),
    ability_def("ABIL_RU_SACRIFICE_EXPERIENCE", "Sacrifice Experience", 0, scaling_cost(0), 0, generic_cost(0), {"SACRIFICE"}),
    ability_def("ABIL_RU_SACRIFICE_SKILL", "Sacrifice Skill", 0, scaling_cost(0), 0, generic_cost(0), {"SACRIFICE"}),
    ability_def("ABIL_RU_SACRIFICE_EYE", "Sacrifice an Eye", 0, scaling_cost(0), 0, generic_cost(0), {"SACRIFICE"}),
    ability_def("ABIL_RU_SACRIFICE_RESISTANCE", "Sacrifice Resistance", 0, scaling_cost(0), 0, generic_cost(0), {"SACRIFICE"}),
    ability_def("ABIL_RU_REJECT_SACRIFICES", "Reject Sacrifices", 0, scaling_cost(0), 0, generic_cost(0), {}),
    ability_def("ABIL_GOZAG_POTION_PETITION", "Potion Petition", 0, scaling_cost(0), 0, generic_cost(0), {"GOLD"}),
    ability_def("ABIL_GOZAG_CALL_MERCHANT", "Call Merchant", 0, scaling_cost(0), 0, generic_cost(0), {"GOLD"}),
    ability_def("ABIL_GOZAG_BRIBE_BRANCH", "Bribe Branch", 0, scaling_cost(0), 0, generic_cost(0), {"GOLD"}),
    ability_def("ABIL_QAZLAL_UPHEAVAL", "Upheaval", 4, scaling_cost(0), 0, generic_cost(3), {}),
    ability_def("ABIL_QAZLAL_ELEMENTAL_FORCE", "Elemental Force", 6, scaling_cost(0), 0, generic_cost(6), {}),
    ability_def("ABIL_QAZLAL_DISASTER_AREA", "Disaster Area", 7, scaling_cost(0), 0, generic_cost(10), {}),
    ability_def("ABIL_PAKELLAS_DEVICE_SURGE", "Device Surge", 0, scaling_cost(0), 100, generic_cost_fixed(1), {"VARIABLE_MP", "INSTANT"}),
    ability_def("ABIL_PAKELLAS_QUICK_CHARGE", "Quick Charge", 0, scaling_cost(0), 100, generic_cost(2), {}),
    ability_def("ABIL_PAKELLAS_SUPERCHARGE", "Supercharge", 0, scaling_cost(0), 0, generic_cost(0), {}),
    ability_def("ABIL_STOP_RECALL", "Stop Recall", 0, scaling_cost(0), 0, generic_cost(0), {}),
    ability_def("ABIL_RENOUNCE_RELIGION", "Renounce Religion", 0, scaling_cost(0), 0, generic_cost(0), {}),
    ability_def("ABIL_CONVERT_TO_BEOGH", "Convert to Beogh", 0, scaling_cost(0), 0, generic_cost(0), {})
>>

\* the first entry of Ability_List with each registered identity, and the
\* first entry of the list
ability_index ==
    LET first_defs(list) ==
            [of |-> [a \in {list[i].ability : i \in 1..Len(list)} |->
                        list[CHOOSE i \in 1..Len(list) :
                                /\ list[i].ability = a
                                /\ \A j \in 1..(i - 1) : list[j].ability # a]],
             first |-> list[1]]
    IN  first_defs(Ability_List)

\* the mutation of get_ability_def that falls off the end of the list on a miss
get_ability_def_last_on_miss(abil) ==
    LET def_in(index) ==
            IF abil \in DOMAIN index.of THEN index.of[abil]
            ELSE Ability_List[Len(Ability_List)]
    IN  def_in(ability_index)

\* the first entry with the identity, else the first entry of the list
get_ability_def(abil) ==
    LET def_in(index) ==
            IF abil \in DOMAIN index.of THEN index.of[abil] ELSE index.first
    IN  def_in(ability_index)

(***************************************************************************)
(* Display names.  A string is the sequence of its character codes, so     *)
(* that changing the case of a letter changes the string.                  *)
(***************************************************************************)
\* the characters of each name literal of Ability_List
Spelling == <<
    <<"No ability", <<78, 111, 32, 97, 98, 105, 108, 105, 116, 121>>>>,
    <<"Spit Poison", <<83, 112, 105, 116, 32, 80, 111, 105, 115, 111, 110>>>>,
    <<"Blink", <<66, 108, 105, 110, 107>>>>,
    <<"Breathe Fire", <<66, 114, 101, 97, 116, 104, 101, 32, 70, 105, 114, 101>>>>,
    <<"Breathe Frost", <<66, 114, 101, 97, 116, 104, 101, 32, 70, 114, 111, 115, 116>>>>,
    <<"Breathe Poison Gas", <<66, 114, 101, 97, 116, 104, 101, 32, 80, 111, 105, 115, 111, 110, 32, 71, 97, 115>>>>,
    <<"Breathe Noxious Fumes", <<66, 114, 101, 97, 116, 104, 101, 32, 78, 111, 120, 105, 111, 117, 115, 32, 70, 117, 109, 101, 115>>>>,
    <<"Breathe Lightning", <<66, 114, 101, 97, 116, 104, 101, 32, 76, 105, 103, 104, 116, 110, 105, 110, 103>>>>,
    <<"Breathe Dispelling Energy", <<66, 114, 101, 97, 116, 104, 101, 32, 68, 105, 115, 112, 101, 108, 108, 105, 110, 103, 32, 69, 110, 101, 114, 103, 121>>>>,
    <<"Breathe Sticky Flame", <<66, 114, 101, 97, 116, 104, 101, 32, 83, 116, 105, 99, 107, 121, 32, 70, 108, 97, 109, 101>>>>,
    <<"Breathe Steam", <<66, 114, 101, 97, 116, 104, 101, 32, 83, 116, 101, 97, 109>>>>,
    <<"Bat Form", <<66, 97, 116, 32, 70, 111, 114, 109>>>>,
    <<"Spit Acid", <<83, 112, 105, 116, 32, 65, 99, 105, 100>>>>,
    <<"Fly", <<70, 108, 121>>>>,
    <<"Stop Flying", <<83, 116, 111, 112, 32, 70, 108, 121, 105, 110, 103>>>>,
    <<"Hellfire", <<72, 101, 108, 108, 102, 105, 114, 101>>>>,
    <<"Release Delayed Fireball", <<82, 101, 108, 101, 97, 115, 101, 32, 68, 101, 108, 97, 121, 101, 100, 32, 70, 105, 114, 101, 98, 97, 108, 108>>>>,
    <<"Stop Singing", <<83, 116, 111, 112, 32, 83, 105, 110, 103, 105, 110, 103>>>>,
    <<"Self-Restoration", <<83, 101, 108, 102, 45, 82, 101, 115, 116, 111, 114, 97, 116, 105, 111, 110>>>>,
    <<"Dig", <<68, 105, 103>>>>,
    <<"Shaft Self", <<83, 104, 97, 102, 116, 32, 83, 101, 108, 102>>>>,
    <<"Evoke Blink", <<69, 118, 111, 107, 101, 32, 66, 108, 105, 110, 107>>>>,
    <<"Device Recharging", <<68, 101, 118, 105, 99, 101, 32, 82, 101, 99, 104, 97, 114, 103, 105, 110, 103>>>>,
    <<"Evoke Berserk Rage", <<69, 118, 111, 107, 101, 32, 66, 101, 114, 115, 101, 114, 107, 32, 82, 97, 103, 101>>>>,
    <<"Evoke Invisibility", <<69, 118, 111, 107, 101, 32, 73, 110, 118, 105, 115, 105, 98, 105, 108, 105, 116, 121>>>>,
    <<"Turn Visible", <<84, 117, 114, 110, 32, 86, 105, 115, 105, 98, 108, 101>>>>,
    <<"Evoke Flight", <<69, 118, 111, 107, 101, 32, 70, 108, 105, 103, 104, 116>>>>,
    <<"Evoke Fog", <<69, 118, 111, 107, 101, 32, 70, 111, 103>>>>,
    <<"End Transformation", <<69, 110, 100, 32, 84, 114, 97, 110, 115, 102, 111, 114, 109, 97, 116, 105, 111, 110>>>>,
    <<"Recite", <<82, 101, 99, 105, 116, 101>>>>,
    <<"Vitalisation", <<86, 105, 116, 97, 108, 105, 115, 97, 116, 105, 111, 110>>>>,
    <<"Imprison", <<73, 109, 112, 114, 105, 115, 111, 110>>>>,
    <<"Sanctuary", <<83, 97, 110, 99, 116, 117, 97, 114, 121>>>>,
    <<"Cure All Mutations", <<67, 117, 114, 101, 32, 65, 108, 108, 32, 77, 117, 116, 97, 116, 105, 111, 110, 115>>>>,
    <<"Donate Gold", <<68, 111, 110, 97, 116, 101, 32, 71, 111, 108, 100>>>>,
    <<"Divine Shield", <<68, 105, 118, 105, 110, 101, 32, 83, 104, 105, 101, 108, 100>>>>,
    <<"Cleansing Flame", <<67, 108, 101, 97, 110, 115, 105, 110, 103, 32, 70, 108, 97, 109, 101>>>>,
    <<"Summon Divine Warrior", <<83, 117, 109, 109, 111, 110, 32, 68, 105, 118, 105, 110, 101, 32, 87, 97, 114, 114, 105, 111, 114>>>>,
    <<"Brand Weapon With Holy Wrath", <<66, 114, 97, 110, 100, 32, 87, 101, 97, 112, 111, 110, 32, 87, 105, 116, 104, 32, 72, 111, 108, 121, 32, 87, 114, 97, 116, 104>>>>,
    <<"Receive Corpses", <<82, 101, 99, 101, 105, 118, 101, 32, 67, 111, 114, 112, 115, 101, 115>>>>,
    <<"Torment", <<84, 111, 114, 109, 101, 110, 116>>>>,
    <<"Receive Necronomicon", <<82, 101, 99, 101, 105, 118, 101, 32, 78, 101, 99, 114, 111, 110, 111, 109, 105, 99, 111, 110>>>>,
    <<"Brand Weapon With Pain", <<66, 114, 97, 110, 100, 32, 87, 101, 97, 112, 111, 110, 32, 87, 105, 116, 104, 32, 80, 97, 105, 110>>>>,
    <<"Injury Mirror", <<73, 110, 106, 117, 114, 121, 32, 77, 105, 114, 114, 111, 114>>>>,
    <<"Animate Remains", <<65, 110, 105, 109, 97, 116, 101, 32, 82, 101, 109, 97, 105, 110, 115>>>>,
    <<"Recall Undead Slaves", <<82, 101, 99, 97, 108, 108, 32, 85, 110, 100, 101, 97, 100, 32, 83, 108, 97, 118, 101, 115>>>>,
    <<"Animate Dead", <<65, 110, 105, 109, 97, 116, 101, 32, 68, 101, 97, 100>>>>,
    <<"Drain Life", <<68, 114, 97, 105, 110, 32, 76, 105, 102, 101>>>>,
    <<"Enslave Soul", <<69, 110, 115, 108, 97, 118, 101, 32, 83, 111, 117, 108>>>>,
    <<"Heroism", <<72, 101, 114, 111, 105, 115, 109>>>>,
    <<"Finesse", <<70, 105, 110, 101, 115, 115, 101>>>>,
    <<"Minor Destruction", <<77, 105, 110, 111, 114, 32, 68, 101, 115, 116, 114, 117, 99, 116, 105, 111, 110>>>>,
    <<"Lesser Servant of Makhleb", <<76, 101, 115, 115, 101, 114, 32, 83, 101, 114, 118, 97, 110, 116, 32, 111, 102, 32, 77, 97, 107, 104, 108, 101, 98>>>>,
    <<"Major Destruction", <<77, 97, 106, 111, 114, 32, 68, 101, 115, 116, 114, 117, 99, 116, 105, 111, 110>>>>,
    <<"Greater Servant of Makhleb", <<71, 114, 101, 97, 116, 101, 114, 32, 83, 101, 114, 118, 97, 110, 116, 32, 111, 102, 32, 77, 97, 107, 104, 108, 101, 98>>>>,
    <<"Channel Energy", <<67, 104, 97, 110, 110, 101, 108, 32, 69, 110, 101, 114, 103, 121>>>>,
    <<"Forget Spell", <<70, 111, 114, 103, 101, 116, 32, 83, 112, 101, 108, 108>>>>,
    <<"Burn Spellbooks", <<66, 117, 114, 110, 32, 83, 112, 101, 108, 108, 98, 111, 111, 107, 115>>>>,
    <<"Berserk", <<66, 101, 114, 115, 101, 114, 107>>>>,
    <<"Trog's Hand", <<84, 114, 111, 103, 39, 115, 32, 72, 97, 110, 100>>>>,
    <<"Brothers in Arms", <<66, 114, 111, 116, 104, 101, 114, 115, 32, 105, 110, 32, 65, 114, 109, 115>>>>,
    <<"Divine Protection", <<68, 105, 118, 105, 110, 101, 32, 80, 114, 111, 116, 101, 99, 116, 105, 111, 110>>>>,
    <<"Lesser Healing", <<76, 101, 115, 115, 101, 114, 32, 72, 101, 97, 108, 105, 110, 103>>>>,
    <<"Heal Other", <<72, 101, 97, 108, 32, 79, 116, 104, 101, 114>>>>,
    <<"Purification", <<80, 117, 114, 105, 102, 105, 99, 97, 116, 105, 111, 110>>>>,
    <<"Greater Healing", <<71, 114, 101, 97, 116, 101, 114, 32, 72, 101, 97, 108, 105, 110, 103>>>>,
    <<"Divine Vigour", <<68, 105, 118, 105, 110, 101, 32, 86, 105, 103, 111, 117, 114>>>>,
    <<"Depart the Abyss", <<68, 101, 112, 97, 114, 116, 32, 116, 104, 101, 32, 65, 98, 121, 115, 115>>>>,
    <<"Bend Space", <<66, 101, 110, 100, 32, 83, 112, 97, 99, 101>>>>,
    <<"Banish", <<66, 97, 110, 105, 115, 104>>>>,
    <<"Corrupt", <<67, 111, 114, 114, 117, 112, 116>>>>,
    <<"Enter the Abyss", <<69, 110, 116, 101, 114, 32, 116, 104, 101, 32, 65, 98, 121, 115, 115>>>>,
    <<"Brand Weapon With Distortion", <<66, 114, 97, 110, 100, 32, 87, 101, 97, 112, 111, 110, 32, 87, 105, 116, 104, 32, 68, 105, 115, 116, 111, 114, 116, 105, 111, 110>>>>,
    <<"Triple Draw", <<84, 114, 105, 112, 108, 101, 32, 68, 114, 97, 119>>>>,
    <<"Deal Four", <<68, 101, 97, 108, 32, 70, 111, 117, 114>>>>,
    <<"Stack Five", <<83, 116, 97, 99, 107, 32, 70, 105, 118, 101>>>>,
    <<"Smiting", <<83, 109, 105, 116, 105, 110, 103>>>>,
    <<"Recall Orcish Followers", <<82, 101, 99, 97, 108, 108, 32, 79, 114, 99, 105, 115, 104, 32, 70, 111, 108, 108, 111, 119, 101, 114, 115>>>>,
    <<"Give Item to Named Follower", <<71, 105, 118, 101, 32, 73, 116, 101, 109, 32, 116, 111, 32, 78, 97, 109, 101, 100, 32, 70, 111, 108, 108, 111, 119, 101, 114>>>>,
    <<"Request Jelly", <<82, 101, 113, 117, 101, 115, 116, 32, 74, 101, 108, 108, 121>>>>,
    <<"Jelly Paralyse", <<74, 101, 108, 108, 121, 32, 80, 97, 114, 97, 108, 121, 115, 101>>>>,
    <<"Slimify", <<83, 108, 105, 109, 105, 102, 121>>>>,
    <<"Cure Bad Mutation", <<67, 117, 114, 101, 32, 66, 97, 100, 32, 77, 117, 116, 97, 116, 105, 111, 110>>>>,
    <<"Evolution", <<69, 118, 111, 108, 117, 116, 105, 111, 110>>>>,
    <<"Sunlight", <<83, 117, 110, 108, 105, 103, 104, 116>>>>,
    <<"Growth", <<71, 114, 111, 119, 116, 104>>>>,
    <<"Reproduction", <<82, 101, 112, 114, 111, 100, 117, 99, 116, 105, 111, 110>>>>,
    <<"Rain", <<82, 97, 105, 110>>>>,
    <<"Bend Time", <<66, 101, 110, 100, 32, 84, 105, 109, 101>>>>,
    <<"Temporal Distortion", <<84, 101, 109, 112, 111, 114, 97, 108, 32, 68, 105, 115, 116, 111, 114, 116, 105, 111, 110>>>>,
    <<"Slouch", <<83, 108, 111, 117, 99, 104>>>>,
    <<"Step From Time", <<83, 116, 101, 112, 32, 70, 114, 111, 109, 32, 84, 105, 109, 101>>>>,
    <<"Scrying", <<83, 99, 114, 121, 105, 110, 103>>>>,
    <<"Transfer Knowledge", <<84, 114, 97, 110, 115, 102, 101, 114, 32, 75, 110, 111, 119, 108, 101, 100, 103, 101>>>>,
    <<"End Transfer Knowledge", <<69, 110, 100, 32, 84, 114, 97, 110, 115, 102, 101, 114, 32, 75, 110, 111, 119, 108, 101, 100, 103, 101>>>>,
    <<"Shadow Step", <<83, 104, 97, 100, 111, 119, 32, 83, 116, 101, 112>>>>,
    <<"Shadow Form", <<83, 104, 97, 100, 111, 119, 32, 70, 111, 114, 109>>>>,
    <<"Draw Out Power", <<68, 114, 97, 119, 32, 79, 117, 116, 32, 80, 111, 119, 101, 114>>>>,
    <<"Power Leap", <<80, 111, 119, 101, 114, 32, 76, 101, 97, 112>>>>,
    <<"Apocalypse", <<65, 112, 111, 99, 97, 108, 121, 112, 115, 101>>>>,
    <<"Sacrifice Purity", <<83, 97, 99, 114, 105, 102, 105, 99, 101, 32, 80, 117, 114, 105, 116, 121>>>>,
    <<"Sacrifice Words", <<83, 97, 99, 114, 105, 102, 105, 99, 101, 32, 87, 111, 114, 100, 115>>>>,
    <<"Sacrifice Drink", <<83, 97, 99, 114, 105, 102, 105, 99, 101, 32, 68, 114, 105, 110, 107>>>>,
    <<"Sacrifice Essence", <<83, 97, 99, 114, 105, 102, 105, 99, 101, 32, 69, 115, 115, 101, 110, 99, 101>>>>,
    <<"Sacrifice Health", <<83, 97, 99, 114, 105, 102, 105, 99, 101, 32, 72, 101, 97, 108, 116, 104>>>>,
    <<"Sacrifice Stealth", <<83, 97, 99, 114, 105, 102, 105, 99, 101, 32, 83, 116, 101, 97, 108, 116, 104>>>>,
    <<"Sacrifice Artifice", <<83, 97, 99, 114, 105, 102, 105, 99, 101, 32, 65, 114, 116, 105, 102, 105, 99, 101>>>>,
    <<"Sacrifice Love", <<83, 97, 99, 114, 105, 102, 105, 99, 101, 32, 76, 111, 118, 101>>>>,
    <<"Sacrifice Courage", <<83, 97, 99, 114, 105, 102, 105, 99, 101, 32, 67, 111, 117, 114, 97, 103, 101>>>>,
    <<"Sacrifice Arcana", <<83, 97, 99, 114, 105, 102, 105, 99, 101, 32, 65, 114, 99, 97, 110, 97>>>>,
    <<"Sacrifice Nimbleness", <<83, 97, 99, 114, 105, 102, 105, 99, 101, 32, 78, 105, 109, 98, 108, 101, 110, 101, 115, 115>>>>,
    <<"Sacrifice Durability", <<83, 97, 99, 114, 105, 102, 105, 99, 101, 32, 68, 117, 114, 97, 98, 105, 108, 105, 116, 121>>>>,
    <<"Sacrifice a Hand", <<83, 97, 99, 114, 105, 102, 105, 99, 101, 32, 97, 32, 72, 97, 110, 100>>>>,
    <<"Sacrifice Experience", <<83, 97, 99, 114, 105, 102, 105, 99, 101, 32, 69, 120, 112, 101, 114, 105, 101, 110, 99, 101>>>>,
    <<"Sacrifice Skill", <<83, 97, 99, 114, 105, 102, 105, 99, 101, 32, 83, 107, 105, 108, 108>>>>,
    <<"Sacrifice an Eye", <<83, 97, 99, 114, 105, 102, 105, 99, 101, 32, 97, 110, 32, 69, 121, 101>>>>,
    <<"Sacrifice Resistance", <<83, 97, 99, 114, 105, 102, 105, 99, 101, 32, 82, 101, 115, 105, 115, 116, 97, 110, 99, 101>>>>,
    <<"Reject Sacrifices", <<82, 101, 106, 101, 99, 116, 32, 83, 97, 99, 114, 105, 102, 105, 99, 101, 115>>>>,
    <<"Potion Petition", <<80, 111, 116, 105, 111, 110, 32, 80, 101, 116, 105, 116, 105, 111, 110>>>>,
    <<"Call Merchant", <<67, 97, 108, 108, 32, 77, 101, 114, 99, 104, 97, 110, 116>>>>,
    <<"Bribe Branch", <<66, 114, 105, 98, 101, 32, 66, 114, 97, 110, 99, 104>>>>,
    <<"Upheaval", <<85, 112, 104, 101, 97, 118, 97, 108>>>>,
    <<"Elemental Force", <<69, 108, 101, 109, 101, 110, 116, 97, 108, 32, 70, 111, 114, 99, 101>>>>,
    <<"Disaster Area", <<68, 105, 115, 97, 115, 116, 101, 114, 32, 65, 114, 101, 97>>>>,
    <<"Device Surge", <<68, 101, 118, 105, 99, 101, 32, 83, 117, 114, 103, 101>>>>,
    <<"Quick Charge", <<81, 117, 105, 99, 107, 32, 67, 104, 97, 114, 103, 101>>>>,
    <<"Supercharge", <<83, 117, 112, 101, 114, 99, 104, 97, 114, 103, 101>>>>,
    <<"Stop Recall", <<83, 116, 111, 112, 32, 82, 101, 99, 97, 108, 108>>>>,
    <<"Renounce Religion", <<82, 101, 110, 111, 117, 110, 99, 101, 32, 82, 101, 108, 105, 103, 105, 111, 110>>>>,
    <<"Convert to Beogh", <<67, 111, 110, 118, 101, 114, 116, 32, 116, 111, 32, 66, 101, 111, 103, 104>>>>
>>

\* the characters of a name of the table
c_str(name) ==
    LET spelt(rows) == rows[CHOOSE i \in 1..Len(rows) : rows[i][1] = name][2]
    IN  spelt(Spelling)

\* lowercase_string(s): every 'A'..'Z' becomes 'a'..'z', the rest stays
lowercase_string(s) ==
    [i \in 1..Len(s) |-> IF s[i] >= 65 /\ s[i] <= 90 THEN s[i] + 32 ELSE s[i]]

ability_name(ability) ==
    get_ability_def(ability).name

\* the lower-cased name of every entry of the list, in the order of the list
lowercase_names ==
    [i \in 1..Len(Ability_List) |->
        lowercase_string(c_str(ability_name(Ability_List[i].ability)))]

\* the mutation of ability_by_name that compares the names as they are spelt
ability_by_name_case_sensitive(key) ==
    LET hits == {i \in 1..Len(Ability_List) :
                    /\ Ability_List[i].ability # "ABIL_NON_ABILITY"
                    /\ c_str(ability_name(Ability_List[i].ability)) = key}
    IN  IF hits = {} THEN "ABIL_NON_ABILITY"
        ELSE Ability_List[CHOOSE i \in hits : \A j \in hits : i <= j].ability

\* the first entry, the sentinel skipped, whose lower-cased name is the
\* lower-cased key; ABIL_NON_ABILITY when there is none
ability_by_name(key) ==
    LET first_hit(hits) ==
            IF hits = {} THEN "ABIL_NON_ABILITY"
            ELSE Ability_List[CHOOSE i \in hits : \A j \in hits : i <= j].ability
        lookup(lowered) ==
            first_hit({i \in 1..Len(Ability_List) :
                          /\ Ability_List[i].ability # "ABIL_NON_ABILITY"
                          /\ lowercase_names[i] = lowered})
    IN  lookup(lowercase_string(key))

(***************************************************************************)
(* Values the engine only reads through helpers defined elsewhere in the   *)
(* game (random.cc, player.cc, religion.cc, libutil.cc).                   *)
(***************************************************************************)

\* How many evenly spread sample values stand for one random draw (+1).
RandomPoints == 2

\* random2avg, but the draw can reach max itself
random2avg_reaching_max(max, rolls) ==
    IF max <= 1 THEN {0}
    ELSE {(max * i) \div RandomPoints : i \in 0..RandomPoints}

\* random2avg(max, rolls): an averaged draw with values in [0, max - 1]
\* (0 when max <= 1); the model keeps the end points and evenly spread
\* values in between.
random2avg(max, rolls) ==
    IF max <= 1 THEN {0}
    ELSE {((max - 1) * i) \div RandomPoints : i \in 0..RandomPoints}

\* div_rand_round(num, den): num / den rounded down or, when there is a
\* remainder, randomly up.
div_rand_round(num, den) ==
    {num \div den} \cup (IF num % den = 0 THEN {} ELSE {num \div den + 1})

\* letters are character codes: 'a' = 97 .. 'z' = 122, 'A' = 65 .. 'Z' = 90
letter_to_index(letter) ==
    IF letter >= 97 THEN letter - 97 ELSE letter - 65 + 26

index_in_range(index) ==
    index >= 0 /\ index < 52

index_to_letter(index) ==
    IF index < 26 THEN index + 97 ELSE index - 26 + 65

isaalpha(c) ==
    (c >= 97 /\ c <= 122) \/ (c >= 65 /\ c <= 90)

piety_breakpoint(i) ==
    <<30, 50, 75, 100, 120, 160>>[i + 1]

in_good_standing(y, god, pbreak) ==
    /\ y.religion = god
    /\ ~y.penance
    /\ y.piety >= piety_breakpoint(pbreak)

is_lifeless_undead(y) ==
    y.undead_state \in {"US_UNDEAD", "US_HUNGRY_DEAD"}

you_foodless(y) ==
    y.undead_state = "US_UNDEAD"

\* you.hunger_state <= HS_STARVING
hunger_state_starving(y) ==
    y.hunger <= 900

skill(y, sk, scale) ==
    y.skills[sk] * scale

\* a text_pattern is kept as the set of ability identities whose name it matches
matches(pattern, abil) ==
    abil \in pattern

(***************************************************************************)
(* Placeholder handling.                                                   *)
(***************************************************************************)
\* the identities the switch of fixup_ability has a case for
Placeholders ==
    {"ABIL_YRED_ANIMATE_REMAINS", "ABIL_YRED_RECALL_UNDEAD_SLAVES",
     "ABIL_BEOGH_RECALL_ORCISH_FOLLOWERS", "ABIL_EVOKE_BERSERK", "ABIL_TROG_BERSERK",
     "ABIL_BLINK", "ABIL_EVOKE_BLINK", "ABIL_LUGONU_ABYSS_EXIT", "ABIL_LUGONU_ABYSS_ENTER",
     "ABIL_TSO_BLESS_WEAPON", "ABIL_KIKU_BLESS_WEAPON", "ABIL_LUGONU_BLESS_WEAPON"}

\* fixup_ability with the two blinks redirected to each other
fixup_ability_swapping_blinks(y, cs, ability) ==
    IF ability \notin Placeholders THEN ability ELSE
    CASE ability = "ABIL_YRED_ANIMATE_REMAINS" ->
            IF in_good_standing(y, "GOD_YREDELEMNUL", 2)
            THEN "ABIL_NON_ABILITY" ELSE ability
      [] ability \in {"ABIL_YRED_RECALL_UNDEAD_SLAVES",
                      "ABIL_BEOGH_RECALL_ORCISH_FOLLOWERS"} ->
            IF y.recall_list # <<>> THEN "ABIL_STOP_RECALL" ELSE ability
      [] ability \in {"ABIL_EVOKE_BERSERK", "ABIL_TROG_BERSERK"} ->
            IF is_lifeless_undead(y) \/ y.species = "SP_FORMICID"
            THEN "ABIL_NON_ABILITY" ELSE ability
      [] ability = "ABIL_BLINK" ->
            IF y.species = "SP_FORMICID" THEN "ABIL_NON_ABILITY" ELSE "ABIL_EVOKE_BLINK"
      [] ability = "ABIL_EVOKE_BLINK" ->
            IF y.species = "SP_FORMICID" THEN "ABIL_NON_ABILITY" ELSE "ABIL_BLINK"
      [] ability \in {"ABIL_LUGONU_ABYSS_EXIT", "ABIL_LUGONU_ABYSS_ENTER"} ->
            IF cs.brdepth_abyss = -1 THEN "ABIL_NON_ABILITY" ELSE ability
      [] ability \in {"ABIL_TSO_BLESS_WEAPON", "ABIL_KIKU_BLESS_WEAPON",
                      "ABIL_LUGONU_BLESS_WEAPON"} ->
            IF y.species = "SP_FELID" THEN "ABIL_NON_ABILITY" ELSE ability
      [] OTHER -> ability

fixup_ability(y, cs, ability) ==
    IF ability \notin Placeholders THEN ability ELSE
    CASE ability = "ABIL_YRED_ANIMATE_REMAINS" ->
            IF in_good_standing(y, "GOD_YREDELEMNUL", 2)
            THEN "ABIL_NON_ABILITY" ELSE ability
      [] ability \in {"ABIL_YRED_RECALL_UNDEAD_SLAVES",
                      "ABIL_BEOGH_RECALL_ORCISH_FOLLOWERS"} ->
            IF y.recall_list # <<>> THEN "ABIL_STOP_RECALL" ELSE ability
      [] ability \in {"ABIL_EVOKE_BERSERK", "ABIL_TROG_BERSERK"} ->
            IF is_lifeless_undead(y) \/ y.species = "SP_FORMICID"
            THEN "ABIL_NON_ABILITY" ELSE ability
      [] ability \in {"ABIL_BLINK", "ABIL_EVOKE_BLINK"} ->
            IF y.species = "SP_FORMICID" THEN "ABIL_NON_ABILITY" ELSE ability
      [] ability \in {"ABIL_LUGONU_ABYSS_EXIT", "ABIL_LUGONU_ABYSS_ENTER"} ->
            IF cs.brdepth_abyss = -1 THEN "ABIL_NON_ABILITY" ELSE ability
      [] ability \in {"ABIL_TSO_BLESS_WEAPON", "ABIL_KIKU_BLESS_WEAPON",
                      "ABIL_LUGONU_BLESS_WEAPON"} ->
            IF y.species = "SP_FELID" THEN "ABIL_NON_ABILITY" ELSE ability
      [] OTHER -> ability

(***************************************************************************)
(* The hotkey slot table, you.ability_letter_table[0..51].                 *)
(***************************************************************************)
swap_ability_slots(table, index1, index2) ==
    [table EXCEPT ![index2] = table[index1], ![index1] = table[index2]]

\* The walk of auto_assign_ability_slot over Options.auto_ability_letters:
\* m is the mapping, j the letter within it, overwrite the '+'/'-' state.
RECURSIVE auto_assign_walk(_, _, _, _, _, _, _)
auto_assign_walk(table, opts, slot, abil_type, m, j, overwrite) ==
    IF m > Len(opts) THEN [slot |-> slot, table |-> table]
    ELSE IF ~matches(opts[m].first, abil_type) \/ j > Len(opts[m].second)
    THEN auto_assign_walk(table, opts, slot, abil_type, m + 1, 1, overwrite)
    ELSE LET i == opts[m].second[j]
             index == letter_to_index(i)
             existing_ability == table[index]
         IN  IF i = 43
             THEN auto_assign_walk(table, opts, slot, abil_type, m, j + 1, TRUE)
             ELSE IF i = 45
             THEN auto_assign_walk(table, opts, slot, abil_type, m, j + 1, FALSE)
             ELSE IF ~isaalpha(i)
             THEN auto_assign_walk(table, opts, slot, abil_type, m, j + 1, overwrite)
             ELSE IF existing_ability = "ABIL_NON_ABILITY" \/ existing_ability = abil_type
             THEN [slot |-> index,
                   table |-> IF slot # index
                             THEN [table EXCEPT ![index] = abil_type,
                                                ![slot] = "ABIL_NON_ABILITY"]
                             ELSE [table EXCEPT ![index] = abil_type]]
             ELSE IF overwrite /\ ~matches(opts[m].first, existing_ability)
             THEN [slot |-> index,
                   table |-> swap_ability_slots([table EXCEPT ![slot] = abil_type],
                                                slot, index)]
             ELSE auto_assign_walk(table, opts, slot, abil_type, m, j + 1, overwrite)

auto_assign_ability_slot(table, opts, slot) ==
    auto_assign_walk(table, opts, slot, table[slot], 1, 1, FALSE)

\* Returns an index (0-51) if already assigned, -1 if not.
_lookup_ability_slot(y, cs, abil) ==
    LET found == {slot \in 0..51 :
                     fixup_ability(y, cs, y.ability_letter_table[slot]) = abil}
    IN  IF found = {} THEN -1
        ELSE CHOOSE slot \in found : \A s \in found : slot <= s

\* The slot find_ability_slot starts its search from.
find_first_slot(y, abil, firstletter) ==
    CASE abil = "ABIL_ELYVILON_LIFESAVING" -> letter_to_index(112)
      [] abil = "ABIL_KIKU_GIFT_NECRONOMICON" -> letter_to_index(78)
      [] abil \in {"ABIL_ZIN_CURE_ALL_MUTATIONS", "ABIL_TSO_BLESS_WEAPON",
                   "ABIL_KIKU_BLESS_WEAPON", "ABIL_LUGONU_BLESS_WEAPON",
                   "ABIL_PAKELLAS_SUPERCHARGE"} -> letter_to_index(87)
      [] abil = "ABIL_CONVERT_TO_BEOGH" -> letter_to_index(89)
      [] abil \in {"ABIL_RU_SACRIFICE_PURITY", "ABIL_RU_SACRIFICE_WORDS",
                   "ABIL_RU_SACRIFICE_DRINK", "ABIL_RU_SACRIFICE_ESSENCE",
                   "ABIL_RU_SACRIFICE_HEALTH", "ABIL_RU_SACRIFICE_STEALTH",
                   "ABIL_RU_SACRIFICE_ARTIFICE", "ABIL_RU_SACRIFICE_LOVE",
                   "ABIL_RU_SACRIFICE_COURAGE", "ABIL_RU_SACRIFICE_ARCANA",
                   "ABIL_RU_SACRIFICE_NIMBLENESS", "ABIL_RU_SACRIFICE_DURABILITY",
                   "ABIL_RU_SACRIFICE_HAND", "ABIL_RU_SACRIFICE_EXPERIENCE",
                   "ABIL_RU_SACRIFICE_SKILL", "ABIL_RU_SACRIFICE_EYE",
                   "ABIL_RU_SACRIFICE_RESISTANCE", "ABIL_RU_REJECT_SACRIFICES"} ->
            letter_to_index(71)
      [] OTHER ->
            IF y.species = "SP_BASE_DRACONIAN"
               /\ letter_to_index(firstletter) >= letter_to_index(102)
            THEN letter_to_index(firstletter) + 1
            ELSE letter_to_index(firstletter)

\* find_ability_slot, but it never looks the ability up before assigning
find_ability_slot_without_lookup(y, cs, opts, abil, firstletter) ==
    LET table == y.ability_letter_table
        first_slot == find_first_slot(y, abil, firstletter)
        up == {s \in first_slot..51 : table[s] = "ABIL_NON_ABILITY"}
        down == {s \in 0..(first_slot - 1) : table[s] = "ABIL_NON_ABILITY"}
    IN  IF up # {}
        THEN LET slot == CHOOSE s \in up : \A t \in up : s <= t
             IN  auto_assign_ability_slot([table EXCEPT ![slot] = abil], opts.auto_ability_letters, slot)
        ELSE IF down # {}
        THEN LET slot == CHOOSE s \in down : \A t \in down : s >= t
             IN  auto_assign_ability_slot([table EXCEPT ![slot] = abil], opts.auto_ability_letters, slot)
        ELSE [slot |-> -1, table |-> table]

\* find_ability_slot, but with all letters assigned it hands out the last one
find_ability_slot_handing_out_Z(y, cs, opts, abil, firstletter) ==
    LET table == y.ability_letter_table
        had_slot == _lookup_ability_slot(y, cs, abil)
        first_slot == find_first_slot(y, abil, firstletter)
        up == {s \in first_slot..51 : table[s] = "ABIL_NON_ABILITY"}
        down == {s \in 0..(first_slot - 1) : table[s] = "ABIL_NON_ABILITY"}
    IN  IF had_slot > -1 THEN [slot |-> had_slot, table |-> table]
        ELSE IF up # {}
        THEN LET slot == CHOOSE s \in up : \A t \in up : s <= t
             IN  auto_assign_ability_slot([table EXCEPT ![slot] = abil], opts.auto_ability_letters, slot)
        ELSE IF down # {}
        THEN LET slot == CHOOSE s \in down : \A t \in down : s >= t
             IN  auto_assign_ability_slot([table EXCEPT ![slot] = abil], opts.auto_ability_letters, slot)
        ELSE [slot |-> 51, table |-> table]

\* Assign a new ability slot if necessary: [slot, table], slot -1 when all
\* letters are assigned.
find_ability_slot(y, cs, opts, abil, firstletter) ==
    LET table == y.ability_letter_table
        had_slot == _lookup_ability_slot(y, cs, abil)
        first_slot == find_first_slot(y, abil, firstletter)
        up == {s \in first_slot..51 : table[s] = "ABIL_NON_ABILITY"}
        down == {s \in 0..(first_slot - 1) : table[s] = "ABIL_NON_ABILITY"}
    IN  IF had_slot > -1 THEN [slot |-> had_slot, table |-> table]
        ELSE IF up # {}
        THEN LET slot == CHOOSE s \in up : \A t \in up : s <= t
             IN  auto_assign_ability_slot([table EXCEPT ![slot] = abil], opts.auto_ability_letters, slot)
        ELSE IF down # {}
        THEN LET slot == CHOOSE s \in down : \A t \in down : s >= t
             IN  auto_assign_ability_slot([table EXCEPT ![slot] = abil], opts.auto_ability_letters, slot)
        ELSE [slot |-> -1, table |-> table]

(***************************************************************************)
(* Talents: get_talent computes the offered identity, its hotkey and its   *)
(* failure chance.                                                         *)
(***************************************************************************)
ZeroFailInvocations ==
    {"ABIL_ZIN_CURE_ALL_MUTATIONS", "ABIL_ZIN_DONATE_GOLD", "ABIL_KIKU_BLESS_WEAPON",
     "ABIL_KIKU_GIFT_NECRONOMICON", "ABIL_TSO_BLESS_WEAPON", "ABIL_LUGONU_BLESS_WEAPON",
     "ABIL_ELYVILON_LIFESAVING", "ABIL_TROG_BURN_SPELLBOOKS",
     "ABIL_ASHENZARI_TRANSFER_KNOWLEDGE", "ABIL_ASHENZARI_END_TRANSFER",
     "ABIL_ASHENZARI_SCRYING", "ABIL_BEOGH_GIFT_ITEM", "ABIL_JIYVA_CALL_JELLY",
     "ABIL_JIYVA_CURE_BAD_MUTATION", "ABIL_JIYVA_JELLY_PARALYSE",
     "ABIL_GOZAG_POTION_PETITION", "ABIL_GOZAG_CALL_MERCHANT", "ABIL_GOZAG_BRIBE_BRANCH",
     "ABIL_RU_DRAW_OUT_POWER", "ABIL_RU_POWER_LEAP", "ABIL_RU_APOCALYPSE",
     "ABIL_RU_SACRIFICE_PURITY", "ABIL_RU_SACRIFICE_WORDS", "ABIL_RU_SACRIFICE_DRINK",
     "ABIL_RU_SACRIFICE_ESSENCE", "ABIL_RU_SACRIFICE_HEALTH", "ABIL_RU_SACRIFICE_STEALTH",
     "ABIL_RU_SACRIFICE_ARTIFICE", "ABIL_RU_SACRIFICE_LOVE", "ABIL_RU_SACRIFICE_COURAGE",
     "ABIL_RU_SACRIFICE_ARCANA", "ABIL_RU_SACRIFICE_NIMBLENESS",
     "ABIL_RU_SACRIFICE_DURABILITY", "ABIL_RU_SACRIFICE_HAND",
     "ABIL_RU_SACRIFICE_EXPERIENCE", "ABIL_RU_SACRIFICE_SKILL", "ABIL_RU_SACRIFICE_EYE",
     "ABIL_RU_SACRIFICE_RESISTANCE", "ABIL_RU_REJECT_SACRIFICES",
     "ABIL_PAKELLAS_SUPERCHARGE", "ABIL_STOP_RECALL", "ABIL_RENOUNCE_RELIGION",
     "ABIL_CONVERT_TO_BEOGH", "ABIL_TROG_BERSERK"}

\* The invocations whose failure is base - piety / pdiv - skill(sk, scale).
PietySkillFailure ==
    [a \in {"ABIL_ELYVILON_PURIFICATION"} |-> <<20, 20, "SK_INVOCATIONS", 5>>]
    @@ [a \in {"ABIL_ZIN_RECITE", "ABIL_BEOGH_RECALL_ORCISH_FOLLOWERS",
               "ABIL_OKAWARU_HEROISM", "ABIL_ELYVILON_LESSER_HEALING",
               "ABIL_LUGONU_ABYSS_EXIT", "ABIL_FEDHAS_SUNLIGHT", "ABIL_FEDHAS_EVOLUTION",
               "ABIL_DITHMENOS_SHADOW_STEP"} |-> <<30, 20, "SK_INVOCATIONS", 6>>]
    @@ [a \in {"ABIL_YRED_ANIMATE_REMAINS", "ABIL_YRED_ANIMATE_DEAD",
               "ABIL_YRED_INJURY_MIRROR", "ABIL_CHEIBRIADOS_TIME_BEND"} |->
            <<40, 20, "SK_INVOCATIONS", 4>>]
    @@ [a \in {"ABIL_PAKELLAS_QUICK_CHARGE"} |-> <<40, 25, "SK_EVOCATIONS", 5>>]
    @@ [a \in {"ABIL_ZIN_VITALISATION", "ABIL_TSO_DIVINE_SHIELD", "ABIL_BEOGH_SMITING",
               "ABIL_SIF_MUNA_FORGET_SPELL", "ABIL_MAKHLEB_MINOR_DESTRUCTION",
               "ABIL_MAKHLEB_LESSER_SERVANT_OF_MAKHLEB", "ABIL_ELYVILON_GREATER_HEALING",
               "ABIL_ELYVILON_HEAL_OTHER", "ABIL_LUGONU_BEND_SPACE",
               "ABIL_FEDHAS_PLANT_RING", "ABIL_QAZLAL_UPHEAVAL"} |->
            <<40, 20, "SK_INVOCATIONS", 5>>]
    @@ [a \in {"ABIL_KIKU_RECEIVE_CORPSES"} |-> <<40, 20, "SK_NECROMANCY", 5>>]
    @@ [a \in {"ABIL_SIF_MUNA_CHANNEL_ENERGY"} |-> <<40, 20, "SK_INVOCATIONS", 2>>]
    @@ [a \in {"ABIL_YRED_RECALL_UNDEAD_SLAVES"} |-> <<50, 20, "SK_INVOCATIONS", 4>>]
    @@ [a \in {"ABIL_PAKELLAS_DEVICE_SURGE"} |-> <<40, 20, "SK_EVOCATIONS", 5>>]
    @@ [a \in {"ABIL_ZIN_IMPRISON", "ABIL_LUGONU_BANISH", "ABIL_CHEIBRIADOS_DISTORTION",
               "ABIL_QAZLAL_ELEMENTAL_FORCE"} |-> <<60, 20, "SK_INVOCATIONS", 5>>]
    @@ [a \in {"ABIL_KIKU_TORMENT"} |-> <<60, 20, "SK_NECROMANCY", 5>>]
    @@ [a \in {"ABIL_MAKHLEB_MAJOR_DESTRUCTION", "ABIL_FEDHAS_SPAWN_SPORES",
               "ABIL_YRED_DRAIN_LIFE", "ABIL_CHEIBRIADOS_SLOUCH", "ABIL_OKAWARU_FINESSE"} |->
            <<60, 25, "SK_INVOCATIONS", 4>>]
    @@ [a \in {"ABIL_TSO_CLEANSING_FLAME", "ABIL_LUGONU_CORRUPT", "ABIL_FEDHAS_RAIN",
               "ABIL_QAZLAL_DISASTER_AREA"} |-> <<70, 25, "SK_INVOCATIONS", 4>>]
    @@ [a \in {"ABIL_ZIN_SANCTUARY", "ABIL_TSO_SUMMON_DIVINE_WARRIOR",
               "ABIL_YRED_ENSLAVE_SOUL", "ABIL_ELYVILON_DIVINE_VIGOUR",
               "ABIL_LUGONU_ABYSS_ENTER", "ABIL_CHEIBRIADOS_TIME_STEP",
               "ABIL_DITHMENOS_SHADOW_FORM"} |-> <<80, 25, "SK_INVOCATIONS", 4>>]
    @@ [a \in {"ABIL_MAKHLEB_GREATER_SERVANT_OF_MAKHLEB"} |-> <<90, 5, "SK_INVOCATIONS", 2>>]
    @@ [a \in {"ABIL_NEMELEX_STACK_FIVE"} |-> <<80, 25, "SK_EVOCATIONS", 4>>]
    @@ [a \in {"ABIL_NEMELEX_TRIPLE_DRAW"} |-> <<60, 20, "SK_EVOCATIONS", 5>>]

\* The switch of get_talent: the raw failure value of an ability.
\* the mutation of talent_failure that gives every ability an even chance
talent_failure_even(y, ability) ==
    50

talent_failure(y, ability) ==
    LET dragon == IF y.form = "TRAN_DRAGON" THEN 20 ELSE 0 IN
    CASE ability \in {"ABIL_DELAYED_FIREBALL", "ABIL_MUMMY_RESTORATION",
                      "ABIL_STOP_SINGING", "ABIL_DIG", "ABIL_SHAFT_SELF",
                      "ABIL_END_TRANSFORMATION", "ABIL_EVOKE_TURN_VISIBLE",
                      "ABIL_STOP_FLYING"} -> 0
      [] ability = "ABIL_SPIT_POISON" ->
            40 - 10 * y.mutation["MUT_SPIT_POISON"] - y.experience_level
      [] ability \in {"ABIL_BREATHE_FIRE", "ABIL_BREATHE_FROST", "ABIL_BREATHE_POISON",
                      "ABIL_SPIT_ACID", "ABIL_BREATHE_LIGHTNING", "ABIL_BREATHE_POWER",
                      "ABIL_BREATHE_STICKY_FLAME", "ABIL_BREATHE_MEPHITIC"} ->
            30 - y.experience_level - dragon
      [] ability = "ABIL_BREATHE_STEAM" -> 20 - y.experience_level - dragon
      [] ability = "ABIL_FLY" -> 42 - 3 * y.experience_level
      [] ability \in {"ABIL_TRAN_BAT", "ABIL_RECHARGING"} -> 45 - 2 * y.experience_level
      [] ability = "ABIL_HELLFIRE" -> 50 - y.experience_level
      [] ability = "ABIL_BLINK" ->
            48 - 17 * y.mutation["MUT_BLINK"] - y.experience_level \div 2
      [] ability = "ABIL_EVOKE_TURN_INVISIBLE" -> 60 - skill(y, "SK_EVOCATIONS", 2)
      [] ability \in {"ABIL_EVOKE_FLIGHT", "ABIL_EVOKE_BLINK"} ->
            40 - skill(y, "SK_EVOCATIONS", 2)
      [] ability \in {"ABIL_EVOKE_BERSERK", "ABIL_EVOKE_FOG"} ->
            50 - skill(y, "SK_EVOCATIONS", 2)
      [] ability \in ZeroFailInvocations -> 0
      [] ability = "ABIL_TROG_REGEN_MR" -> piety_breakpoint(2) - y.piety
      [] ability = "ABIL_TROG_BROTHERS_IN_ARMS" -> piety_breakpoint(5) - y.piety
      [] ability = "ABIL_JIYVA_SLIMIFY" -> 90 - y.piety \div 2
      [] ability \in DOMAIN PietySkillFailure ->
            LET f == PietySkillFailure[ability]
            IN  f[1] - y.piety \div f[2] - skill(y, f[3], f[4])
      [] ability = "ABIL_NEMELEX_DEAL_FOUR" ->
            70 - (y.piety * 2) \div 45 - skill(y, "SK_EVOCATIONS", 9) \div 2
      [] OTHER -> -1

talent_is_invocation(ability) ==
    ability \in ZeroFailInvocations
               \cup {"ABIL_TROG_REGEN_MR", "ABIL_TROG_BROTHERS_IN_ARMS",
                     "ABIL_JIYVA_SLIMIFY", "ABIL_NEMELEX_DEAL_FOUR"}
               \cup DOMAIN PietySkillFailure

\* get_talent without the two clamps of the failure chance
get_talent_unclamped(y, cs, opts, ability, check_confused) ==
    LET unslotted(which, crashed) ==
            [tal |-> [which |-> which, hotkey |-> 0, fail |-> 0, is_invocation |-> FALSE],
             table |-> y.ability_letter_table, crashed |-> crashed]
        slotted(which, found, failure) ==
            [tal |-> [which |-> which,
                      hotkey |-> IF found.slot >= 0 THEN index_to_letter(found.slot) ELSE 0,
                      fail |-> failure,
                      is_invocation |-> talent_is_invocation(ability)],
             table |-> found.table, crashed |-> FALSE]
        defined(which, abil) ==
            IF check_confused /\ y.confused /\ "CONF_OK" \notin abil.flags
            THEN unslotted("ABIL_NON_ABILITY", FALSE)
            ELSE slotted(which, find_ability_slot(y, cs, opts, abil.ability, 102),
                         talent_failure(y, ability))
        resolved(which) ==
            IF ability = "ABIL_NON_ABILITY" THEN unslotted(which, TRUE)
            ELSE defined(which, get_ability_def(which))
    IN  resolved(fixup_ability(y, cs, ability))

\* get_talent without the test on confusion
get_talent_heedless_of_confusion(y, cs, opts, ability, check_confused) ==
    LET unslotted(which, crashed) ==
            [tal |-> [which |-> which, hotkey |-> 0, fail |-> 0, is_invocation |-> FALSE],
             table |-> y.ability_letter_table, crashed |-> crashed]
        slotted(which, found, failure) ==
            [tal |-> [which |-> which,
                      hotkey |-> IF found.slot >= 0 THEN index_to_letter(found.slot) ELSE 0,
                      fail |-> IF failure < 0 THEN 0
                               ELSE IF failure > 100 THEN 100 ELSE failure,
                      is_invocation |-> talent_is_invocation(ability)],
             table |-> found.table, crashed |-> FALSE]
        defined(which, abil) ==
            slotted(which, find_ability_slot(y, cs, opts, abil.ability, 102),
                    talent_failure(y, ability))
        resolved(which) ==
            IF ability = "ABIL_NON_ABILITY" THEN unslotted(which, TRUE)
            ELSE defined(which, get_ability_def(which))
    IN  resolved(fixup_ability(y, cs, ability))

\* get_talent: [tal, table, crashed]; crashed is the ASSERT on its argument.
get_talent(y, cs, opts, ability, check_confused) ==
    LET unslotted(which, crashed) ==
            [tal |-> [which |-> which, hotkey |-> 0, fail |-> 0, is_invocation |-> FALSE],
             table |-> y.ability_letter_table, crashed |-> crashed]
        slotted(which, found, failure) ==
            [tal |-> [which |-> which,
                      hotkey |-> IF found.slot >= 0 THEN index_to_letter(found.slot) ELSE 0,
                      fail |-> IF failure < 0 THEN 0
                               ELSE IF failure > 100 THEN 100 ELSE failure,
                      is_invocation |-> talent_is_invocation(ability)],
             table |-> found.table, crashed |-> FALSE]
        defined(which, abil) ==
            IF check_confused /\ y.confused /\ "CONF_OK" \notin abil.flags
            THEN unslotted("ABIL_NON_ABILITY", FALSE)
            ELSE slotted(which, find_ability_slot(y, cs, opts, abil.ability, 102),
                         talent_failure(y, ability))
        resolved(which) ==
            IF ability = "ABIL_NON_ABILITY" THEN unslotted(which, TRUE)
            ELSE defined(which, get_ability_def(which))
    IN  resolved(fixup_ability(y, cs, ability))

(***************************************************************************)
(* The talents on offer: your_talents.  What the rest of the game answers  *)
(* (mutations other than the two levelled ones, durations, attributes,     *)
(* equipment) is the set you.has of the facts that hold.                   *)
(***************************************************************************)
has(y, what) == what \in y.has

\* the number of piety breakpoints reached
piety_rank(y) ==
    Cardinality({i \in 0..5 : y.piety >= piety_breakpoint(i)})

\* the powers of a god, by rank; ABIL_NON_ABILITY marks a passive power
get_god_powers(god) ==
    CASE god = "GOD_TROG" ->
            <<[rank |-> 1, abil |-> "ABIL_TROG_BERSERK"],
              [rank |-> 2, abil |-> "ABIL_TROG_REGEN_MR"],
              [rank |-> 3, abil |-> "ABIL_NON_ABILITY"],
              [rank |-> 4, abil |-> "ABIL_TROG_BROTHERS_IN_ARMS"],
              [rank |-> -1, abil |-> "ABIL_TROG_BURN_SPELLBOOKS"]>>
      [] god = "GOD_YREDELEMNUL" ->
            <<[rank |-> 1, abil |-> "ABIL_YRED_ANIMATE_REMAINS"],
              [rank |-> 2, abil |-> "ABIL_YRED_RECALL_UNDEAD_SLAVES"],
              [rank |-> 2, abil |-> "ABIL_YRED_INJURY_MIRROR"],
              [rank |-> 3, abil |-> "ABIL_YRED_ANIMATE_DEAD"],
              [rank |-> 4, abil |-> "ABIL_YRED_DRAIN_LIFE"],
              [rank |-> 5, abil |-> "ABIL_YRED_ENSLAVE_SOUL"]>>
      [] god = "GOD_RU" ->
            <<[rank |-> 1, abil |-> "ABIL_NON_ABILITY"],
              [rank |-> 3, abil |-> "ABIL_RU_DRAW_OUT_POWER"],
              [rank |-> 4, abil |-> "ABIL_RU_POWER_LEAP"],
              [rank |-> 5, abil |-> "ABIL_RU_APOCALYPSE"]>>
      [] god = "GOD_ASHENZARI" ->
            <<[rank |-> 1, abil |-> "ABIL_NON_ABILITY"],
              [rank |-> 3, abil |-> "ABIL_ASHENZARI_SCRYING"],
              [rank |-> 4, abil |-> "ABIL_ASHENZARI_TRANSFER_KNOWLEDGE"]>>
      [] OTHER -> <<>>

draconian_breath(species) ==
    CASE species = "SP_GREEN_DRACONIAN" -> "ABIL_BREATHE_MEPHITIC"
      [] species = "SP_RED_DRACONIAN" -> "ABIL_BREATHE_FIRE"
      [] species = "SP_WHITE_DRACONIAN" -> "ABIL_BREATHE_FROST"
      [] species = "SP_YELLOW_DRACONIAN" -> "ABIL_SPIT_ACID"
      [] species = "SP_BLACK_DRACONIAN" -> "ABIL_BREATHE_LIGHTNING"
      [] species = "SP_PURPLE_DRACONIAN" -> "ABIL_BREATHE_POWER"
      [] species = "SP_MOTTLED_DRACONIAN" -> "ABIL_BREATHE_STICKY_FLAME"
      [] species = "SP_PALE_DRACONIAN" -> "ABIL_BREATHE_STEAM"
      [] OTHER -> "ABIL_NON_ABILITY"

\* get_god_abilities going on to the powers in silence
get_god_abilities_despite_silence(y, cs, ignore_silence, ignore_piety, ignore_penance) ==
    LET sacrifices == IF y.religion = "GOD_RU" /\ y.sacrifices # <<>>
                      THEN y.sacrifices \o <<"ABIL_RU_REJECT_SACRIFICES">>
                      ELSE <<>>
        transfer == IF y.transfer_skill_points > 0
                    THEN <<"ABIL_ASHENZARI_END_TRANSFER">> ELSE <<>>
        active == SelectSeq(get_god_powers(y.religion),
                            LAMBDA power : power.abil # "ABIL_NON_ABILITY")
        usable(power) ==
            /\ \/ power.rank <= 0
               \/ power.rank = 7 /\ has(y, "can_do_capstone_ability")
               \/ piety_rank(y) >= power.rank
               \/ ignore_piety
            /\ \/ ~y.penance
               \/ power.rank = -1
               \/ ignore_penance
        granted == SelectSeq(active, usable)
    IN  IF \E i \in DOMAIN active :
                   fixup_ability(y, cs, active[i].abil) = "ABIL_NON_ABILITY"
        THEN [abilities |-> sacrifices \o transfer, crashed |-> TRUE]
        ELSE [abilities |-> sacrifices \o transfer \o
                            [i \in DOMAIN granted |->
                                fixup_ability(y, cs, granted[i].abil)],
              crashed |-> FALSE]

\* get_god_abilities without the test on penance
get_god_abilities_despite_penance(y, cs, ignore_silence, ignore_piety, ignore_penance) ==
    LET sacrifices == IF y.religion = "GOD_RU" /\ y.sacrifices # <<>>
                      THEN y.sacrifices \o <<"ABIL_RU_REJECT_SACRIFICES">>
                      ELSE <<>>
        transfer == IF y.transfer_skill_points > 0
                    THEN <<"ABIL_ASHENZARI_END_TRANSFER">> ELSE <<>>
        active == SelectSeq(get_god_powers(y.religion),
                            LAMBDA power : power.abil # "ABIL_NON_ABILITY")
        usable(power) ==
            \/ power.rank <= 0
            \/ power.rank = 7 /\ has(y, "can_do_capstone_ability")
            \/ piety_rank(y) >= power.rank
            \/ ignore_piety
        granted == SelectSeq(active, usable)
    IN  IF ~ignore_silence /\ y.silenced
        THEN [abilities |-> sacrifices \o transfer, crashed |-> FALSE]
        ELSE IF \E i \in DOMAIN active :
                   fixup_ability(y, cs, active[i].abil) = "ABIL_NON_ABILITY"
        THEN [abilities |-> sacrifices \o transfer, crashed |-> TRUE]
        ELSE [abilities |-> sacrifices \o transfer \o
                            [i \in DOMAIN granted |->
                                fixup_ability(y, cs, granted[i].abil)],
              crashed |-> FALSE]

\* get_god_abilities: [abilities, crashed]; crashed is the ASSERT on a power
\* whose placeholder resolves to no ability.
get_god_abilities(y, cs, ignore_silence, ignore_piety, ignore_penance) ==
    LET sacrifices == IF y.religion = "GOD_RU" /\ y.sacrifices # <<>>
                      THEN y.sacrifices \o <<"ABIL_RU_REJECT_SACRIFICES">>
                      ELSE <<>>
        transfer == IF y.transfer_skill_points > 0
                    THEN <<"ABIL_ASHENZARI_END_TRANSFER">> ELSE <<>>
        active == SelectSeq(get_god_powers(y.religion),
                            LAMBDA power : power.abil # "ABIL_NON_ABILITY")
        usable(power) ==
            /\ \/ power.rank <= 0
               \/ power.rank = 7 /\ has(y, "can_do_capstone_ability")
               \/ piety_rank(y) >= power.rank
               \/ ignore_piety
            /\ \/ ~y.penance
               \/ power.rank = -1
               \/ ignore_penance
        granted == SelectSeq(active, usable)
    IN  IF ~ignore_silence /\ y.silenced
        THEN [abilities |-> sacrifices \o transfer, crashed |-> FALSE]
        ELSE IF \E i \in DOMAIN active :
                   fixup_ability(y, cs, active[i].abil) = "ABIL_NON_ABILITY"
        THEN [abilities |-> sacrifices \o transfer, crashed |-> TRUE]
        ELSE [abilities |-> sacrifices \o transfer \o
                            [i \in DOMAIN granted |->
                                fixup_ability(y, cs, granted[i].abil)],
              crashed |-> FALSE]

\* _add_talent for the abilities from position i on: the vector, the slot
\* table get_talent leaves behind, and whether get_talent's ASSERT failed
RECURSIVE _add_talent(_, _, _, _, _, _, _)
_add_talent(vec, y, cs, opts, abilities, i, check_confused) ==
    LET added(t) ==
            IF t.crashed
            THEN [vec |-> vec, table |-> y.ability_letter_table, crashed |-> TRUE]
            ELSE _add_talent(IF t.tal.which # "ABIL_NON_ABILITY"
                             THEN Append(vec, t.tal) ELSE vec,
                             [y EXCEPT !.ability_letter_table = t.table],
                             cs, opts, abilities, i + 1, check_confused)
    IN  IF i > Len(abilities)
        THEN [vec |-> vec, table |-> y.ability_letter_table, crashed |-> FALSE]
        ELSE added(get_talent(y, cs, opts, abilities[i], check_confused))

\* "for (int k = 51; k >= 0; ++k)": the first k from k on whose letter no
\* talent carries; 52 when the walk leaves the table, where index_to_letter
\* fails its range ASSERT
RECURSIVE free_hotkey(_, _)
free_hotkey(vec, k) ==
    IF ~index_in_range(k) THEN k
    ELSE IF \E other \in DOMAIN vec : vec[other].hotkey = index_to_letter(k)
    THEN free_hotkey(vec, k + 1)
    ELSE k

\* "Find hotkeys for the non-hotkeyed talents", from talent i on
RECURSIVE find_hotkeys(_, _, _, _)
find_hotkeys(vec, y, cs, i) ==
    IF i > Len(vec)
    THEN [talents |-> vec, table |-> y.ability_letter_table, crashed |-> FALSE]
    ELSE LET index == _lookup_ability_slot(y, cs, vec[i].which)
             k == free_hotkey(vec, 51)
         IN  IF index > -1
             THEN find_hotkeys([vec EXCEPT ![i].hotkey = index_to_letter(index)],
                               y, cs, i + 1)
             ELSE IF ~index_in_range(k)
             THEN [talents |-> vec, table |-> y.ability_letter_table, crashed |-> TRUE]
             ELSE find_hotkeys([vec EXCEPT ![i].hotkey = k],
                               [y EXCEPT !.ability_letter_table[k] = vec[i].which],
                               cs, i + 1)

\* a talent is added when its gate holds
gated(gate, ability) == IF gate THEN <<ability>> ELSE <<>>

\* the sections of your_talents with the faith-granted talents moved last
offered_faith_last(species_based, mutations, god, faith, lingering, evocations) ==
    species_based \o mutations \o lingering \o evocations \o god \o faith

\* the sections of your_talents in the order of its statements
offered_in_order(species_based, mutations, god, faith, lingering, evocations) ==
    species_based \o mutations \o god \o faith \o lingering \o evocations

\* the abilities your_talents hands to _add_talent, in its order:
\* [abilities, crashed]
offered_abilities(y, cs, include_unusable) ==
    LET god == get_god_abilities(y, cs, include_unusable, FALSE, include_unusable)
        artifice == ~has(y, "MUT_NO_ARTIFICE")
        species_based ==
            gated(has(y, "MUT_MUMMY_RESTORATION"), "ABIL_MUMMY_RESTORATION")
            \o gated(y.species = "SP_DEEP_DWARF", "ABIL_RECHARGING")
            \o gated(y.species = "SP_FORMICID"
                     /\ (y.form # "TRAN_TREE" \/ include_unusable), "ABIL_DIG")
            \o gated(y.species = "SP_FORMICID"
                     /\ (y.form # "TRAN_TREE" \/ include_unusable)
                     /\ (~cs.game_is_sprint \/ has(y, "brdepth_above_1")),
                     "ABIL_SHAFT_SELF")
            \o gated(y.mutation.MUT_SPIT_POISON = 3, "ABIL_BREATHE_POISON")
            \o gated(y.mutation.MUT_SPIT_POISON \notin {0, 3}, "ABIL_SPIT_POISON")
            \o gated((~has(y, "form_changed_physiology") \/ y.form = "TRAN_DRAGON")
                     /\ draconian_breath(y.species) # "ABIL_NON_ABILITY",
                     draconian_breath(y.species))
            \o gated(y.species = "SP_VAMPIRE" /\ y.experience_level >= 3
                     /\ y.hunger <= 7000 /\ y.form # "TRAN_BAT", "ABIL_TRAN_BAT")
            \o gated(\/ has(y, "MUT_TENGU_FLIGHT") /\ ~has(y, "airborne")
                     \/ has(y, "racial_permanent_flight") /\ ~has(y, "ATTR_PERM_FLIGHT"),
                     "ABIL_FLY")
            \o gated(has(y, "ATTR_PERM_FLIGHT") /\ has(y, "racial_permanent_flight"),
                     "ABIL_STOP_FLYING")
        mutations ==
            gated(has(y, "MUT_HURL_HELLFIRE"), "ABIL_HELLFIRE")
            \o gated(has(y, "DUR_TRANSFORMATION") /\ ~has(y, "transform_uncancellable"),
                     "ABIL_END_TRANSFORMATION")
            \o gated(y.mutation.MUT_BLINK # 0, "ABIL_BLINK")
        faith ==
            gated(y.religion # "GOD_NO_GOD", "ABIL_RENOUNCE_RELIGION")
            \o gated(has(y, "LSTATE_BEOGH") /\ has(y, "can_convert_to_beogh"),
                     "ABIL_CONVERT_TO_BEOGH")
        lingering ==
            gated(y.species # "SP_RED_DRACONIAN" /\ y.form = "TRAN_DRAGON"
                  /\ has(y, "MONS_FIRE_DRAGON"), "ABIL_BREATHE_FIRE")
            \o gated(has(y, "ATTR_DELAYED_FIREBALL"), "ABIL_DELAYED_FIREBALL")
            \o gated(has(y, "DUR_SONG_OF_SLAYING"), "ABIL_STOP_SINGING")
        flight == has(y, "evokable_flight") /\ artifice
                  /\ (~has(y, "ATTR_PERM_FLIGHT") \/ ~has(y, "racial_permanent_flight"))
        evocations ==
            gated(has(y, "ARTP_BLINK") /\ artifice, "ABIL_EVOKE_BLINK")
            \o gated(has(y, "ARTP_FOG") /\ artifice, "ABIL_EVOKE_FOG")
            \o gated(has(y, "evokable_berserk") /\ artifice, "ABIL_EVOKE_BERSERK")
            \o gated(has(y, "evokable_invis") /\ ~has(y, "ATTR_INVIS_UNCANCELLABLE")
                     /\ artifice,
                     IF has(y, "DUR_INVIS") THEN "ABIL_EVOKE_TURN_VISIBLE"
                     ELSE "ABIL_EVOKE_TURN_INVISIBLE")
            \o gated(flight /\ (\/ ~has(y, "airborne")
                                \/ ~has(y, "ATTR_PERM_FLIGHT") /\ has(y, "SPARM_FLYING")),
                     "ABIL_EVOKE_FLIGHT")
            \o gated(flight /\ has(y, "airborne")
                     /\ ~has(y, "ATTR_FLIGHT_UNCANCELLABLE"), "ABIL_STOP_FLYING")
    IN  [abilities |-> IF god.crashed THEN species_based \o mutations
                       ELSE offered_in_order(species_based, mutations, god.abilities,
                                             faith, lingering, evocations),
         crashed |-> god.crashed]

\* your_talents: the list it returns, the list as _add_talent assembled it,
\* the slot table afterwards, and whether an ASSERT ended the game.
your_talents(y, cs, opts, check_confused, include_unusable) ==
    LET hotkeyed(added, found) ==
            [talents |-> IF found.crashed THEN <<>> ELSE found.talents,
             built |-> added.vec, table |-> found.table, crashed |-> found.crashed]
        assembled(added) ==
            IF added.crashed
            THEN [talents |-> <<>>, built |-> <<>>, table |-> added.table, crashed |-> TRUE]
            ELSE hotkeyed(added, find_hotkeys(added.vec,
                                              [y EXCEPT !.ability_letter_table = added.table],
                                              cs, 1))
        listed(offered) ==
            IF offered.crashed
            THEN [talents |-> <<>>, built |-> <<>>, table |-> y.ability_letter_table,
                  crashed |-> TRUE]
            ELSE assembled(_add_talent(<<>>, y, cs, opts, offered.abilities, 1,
                                       check_confused))
    IN  listed(offered_abilities(y, cs, include_unusable))

(***************************************************************************)
(* The actor's resource pools (player.cc, food.cc, religion.cc).           *)
(***************************************************************************)
Max(a, b) == IF a >= b THEN a ELSE b

Min(a, b) == IF a <= b THEN a ELSE b

enough_mp(y, minimum) ==
    y.magic_points >= minimum

\* at least 1 HP is always kept
enough_hp(y, minimum) ==
    y.hp >= minimum + 1

\* the maximum MP without the bonus of worn items
get_real_mp(y) ==
    y.max_magic_points - y.mp_from_items

dec_mp(y, mp_loss) ==
    [y EXCEPT !.magic_points = Max(0, @ - mp_loss)]

inc_mp(y, mp_gain) ==
    [y EXCEPT !.magic_points = Min(y.max_magic_points, @ + mp_gain)]

rot_mp(y, mp_loss) ==
    [y EXCEPT !.max_magic_points = Max(0, @ - mp_loss),
              !.magic_points = Min(@, Max(0, y.max_magic_points - mp_loss))]

\* a non-fatal loss never takes the last hit point
dec_hp(y, hp_loss) ==
    [y EXCEPT !.hp = IF hp_loss >= @ THEN Min(@, 1) ELSE @ - hp_loss]

inc_hp(y, hp_gain) ==
    [y EXCEPT !.hp = Min(y.hp_max, @ + hp_gain)]

rot_hp(y, hp_loss) ==
    [y EXCEPT !.hp_max_adj_temp = @ - hp_loss,
              !.hp_max = @ - hp_loss,
              !.hp = Min(@, y.hp_max - hp_loss)]

unrot_hp(y, hp_recovered) ==
    LET n == Min(hp_recovered, 0 - y.hp_max_adj_temp)
    IN  [y EXCEPT !.hp_max_adj_temp = @ + n, !.hp_max = @ + n]

make_hungry(y, hunger_amount) ==
    IF you_foodless(y) THEN y
    ELSE [y EXCEPT !.hunger = Max(0, @ - hunger_amount)]

lose_piety(y, pgn) ==
    [y EXCEPT !.piety = Max(0, @ - pgn)]

(***************************************************************************)
(* Cost evaluation.                                                        *)
(***************************************************************************)
\* generic_cost::cost(): the values the draw can give
generic_cost_cost(c) ==
    IF c.add > 0 THEN {c.base + r : r \in random2avg(c.add, c.rolls)} ELSE {c.base}

\* scaling_cost::cost(max)
scaling_cost_cost(c, max) ==
    IF c.value < 0 THEN 0 - c.value ELSE (c.value * max + 500) \div 1000

_scale_piety_cost(cs, abil, original_cost) ==
    IF cs.game_is_sprint
       /\ abil \in {"ABIL_TROG_BROTHERS_IN_ARMS", "ABIL_MAKHLEB_GREATER_SERVANT_OF_MAKHLEB"}
    THEN div_rand_round(original_cost * 5, 2)
    ELSE {original_cost}

NoCharge == [mp |-> 0, rot_mp |-> 0, hp |-> 0, rot_hp |-> 0, food |-> 0, piety |-> 0]

\* pay_with, but the HP share is taken of the current HP, not of the maximum
pay_with_share_of_current_hp(y, abil, food_roll, piety_cost) ==
    LET y0 == [y EXCEPT !.turn_is_over = ("INSTANT" \notin abil.flags)]
        food_cost == abil.food_cost + food_roll
        hp_cost == scaling_cost_cost(abil.hp_cost, y.hp)
        y1 == IF abil.mp_cost # 0
              THEN IF "PERMANENT_MP" \in abil.flags
                   THEN rot_mp(dec_mp(y0, abil.mp_cost), 1)
                   ELSE dec_mp(y0, abil.mp_cost)
              ELSE y0
        y2 == IF abil.hp_cost.value # 0
              THEN IF "PERMANENT_HP" \in abil.flags
                   THEN rot_hp(dec_hp(y1, hp_cost), hp_cost)
                   ELSE dec_hp(y1, hp_cost)
              ELSE y1
        y3 == IF food_cost # 0 THEN make_hungry(y2, food_cost) ELSE y2
        y4 == IF piety_cost # 0 THEN lose_piety(y3, piety_cost) ELSE y3
    IN  [you |-> y4,
         charged |-> [mp |-> abil.mp_cost,
                      rot_mp |-> IF abil.mp_cost # 0 /\ "PERMANENT_MP" \in abil.flags
                                 THEN 1 ELSE 0,
                      hp |-> IF abil.hp_cost.value # 0 THEN hp_cost ELSE 0,
                      rot_hp |-> IF abil.hp_cost.value # 0 /\ "PERMANENT_HP" \in abil.flags
                                 THEN hp_cost ELSE 0,
                      food |-> food_cost,
                      piety |-> piety_cost]]

\* pay_with, but the turn ends whatever the flags say
pay_with_turn_always_over(y, abil, food_roll, piety_cost) ==
    LET y0 == [y EXCEPT !.turn_is_over = TRUE]
        food_cost == abil.food_cost + food_roll
        hp_cost == scaling_cost_cost(abil.hp_cost, y.hp_max)
        y1 == IF abil.mp_cost # 0
              THEN IF "PERMANENT_MP" \in abil.flags
                   THEN rot_mp(dec_mp(y0, abil.mp_cost), 1)
                   ELSE dec_mp(y0, abil.mp_cost)
              ELSE y0
        y2 == IF abil.hp_cost.value # 0
              THEN IF "PERMANENT_HP" \in abil.flags
                   THEN rot_hp(dec_hp(y1, hp_cost), hp_cost)
                   ELSE dec_hp(y1, hp_cost)
              ELSE y1
        y3 == IF food_cost # 0 THEN make_hungry(y2, food_cost) ELSE y2
        y4 == IF piety_cost # 0 THEN lose_piety(y3, piety_cost) ELSE y3
    IN  [you |-> y4,
         charged |-> [mp |-> abil.mp_cost,
                      rot_mp |-> IF abil.mp_cost # 0 /\ "PERMANENT_MP" \in abil.flags
                                 THEN 1 ELSE 0,
                      hp |-> IF abil.hp_cost.value # 0 THEN hp_cost ELSE 0,
                      rot_hp |-> IF abil.hp_cost.value # 0 /\ "PERMANENT_HP" \in abil.flags
                                 THEN hp_cost ELSE 0,
                      food |-> food_cost,
                      piety |-> piety_cost]]

\* One settlement, for the draws food_roll and piety_cost: the actor after it
\* and the amounts handed to dec_mp, rot_mp, dec_hp, rot_hp, make_hungry and
\* lose_piety.
\* the mutation of pay_with that takes two points off the maximum for one
\* point of permanent magic
pay_with_double_rot(y, abil, food_roll, piety_cost) ==
    LET y0 == [y EXCEPT !.turn_is_over = ("INSTANT" \notin abil.flags)]
        food_cost == abil.food_cost + food_roll
        hp_cost == scaling_cost_cost(abil.hp_cost, y.hp_max)
        y1 == IF abil.mp_cost # 0
              THEN IF "PERMANENT_MP" \in abil.flags
                   THEN rot_mp(dec_mp(y0, abil.mp_cost), 2)
                   ELSE dec_mp(y0, abil.mp_cost)
              ELSE y0
        y2 == IF abil.hp_cost.value # 0
              THEN IF "PERMANENT_HP" \in abil.flags
                   THEN rot_hp(dec_hp(y1, hp_cost), hp_cost)
                   ELSE dec_hp(y1, hp_cost)
              ELSE y1
        y3 == IF food_cost # 0 THEN make_hungry(y2, food_cost) ELSE y2
        y4 == IF piety_cost # 0 THEN lose_piety(y3, piety_cost) ELSE y3
    IN  [you |-> y4,
         charged |-> [mp |-> abil.mp_cost,
                      rot_mp |-> IF abil.mp_cost # 0 /\ "PERMANENT_MP" \in abil.flags
                                 THEN 2 ELSE 0,
                      hp |-> IF abil.hp_cost.value # 0 THEN hp_cost ELSE 0,
                      rot_hp |-> IF abil.hp_cost.value # 0 /\ "PERMANENT_HP" \in abil.flags
                                 THEN hp_cost ELSE 0,
                      food |-> food_cost,
                      piety |-> piety_cost]]

pay_with(y, abil, food_roll, piety_cost) ==
    LET y0 == [y EXCEPT !.turn_is_over = ("INSTANT" \notin abil.flags)]
        food_cost == abil.food_cost + food_roll
        hp_cost == scaling_cost_cost(abil.hp_cost, y.hp_max)
        y1 == IF abil.mp_cost # 0
              THEN IF "PERMANENT_MP" \in abil.flags
                   THEN rot_mp(dec_mp(y0, abil.mp_cost), 1)
                   ELSE dec_mp(y0, abil.mp_cost)
              ELSE y0
        y2 == IF abil.hp_cost.value # 0
              THEN IF "PERMANENT_HP" \in abil.flags
                   THEN rot_hp(dec_hp(y1, hp_cost), hp_cost)
                   ELSE dec_hp(y1, hp_cost)
              ELSE y1
        y3 == IF food_cost # 0 THEN make_hungry(y2, food_cost) ELSE y2
        y4 == IF piety_cost # 0 THEN lose_piety(y3, piety_cost) ELSE y3
    IN  [you |-> y4,
         charged |-> [mp |-> abil.mp_cost,
                      rot_mp |-> IF abil.mp_cost # 0 /\ "PERMANENT_MP" \in abil.flags
                                 THEN 1 ELSE 0,
                      hp |-> IF abil.hp_cost.value # 0 THEN hp_cost ELSE 0,
                      rot_hp |-> IF abil.hp_cost.value # 0 /\ "PERMANENT_HP" \in abil.flags
                                 THEN hp_cost ELSE 0,
                      food |-> food_cost,
                      piety |-> piety_cost]]

\* _pay_ability_costs: every result its random draws allow.
_pay_ability_costs(y, cs, abil) ==
    {pay_with(y, abil, food_roll, piety_cost) :
        food_roll \in random2avg(abil.food_cost, 2),
        piety_cost \in UNION {_scale_piety_cost(cs, abil.ability, c) :
                                 c \in generic_cost_cost(abil.piety_cost)}}

(***************************************************************************)
(* Prerequisites: _check_ability_possible.  Each result is                 *)
(* [ok, reason, msg, prompted, table, crashed]; predicates answered by     *)
(* the dungeon outside this module may go either way.                      *)
(***************************************************************************)
BreathAbilities ==
    {"ABIL_SPIT_POISON", "ABIL_BREATHE_FIRE", "ABIL_BREATHE_FROST", "ABIL_BREATHE_POISON",
     "ABIL_BREATHE_LIGHTNING", "ABIL_SPIT_ACID", "ABIL_BREATHE_POWER",
     "ABIL_BREATHE_STICKY_FLAME", "ABIL_BREATHE_STEAM", "ABIL_BREATHE_MEPHITIC"}

\* abilities whose own prerequisite is decided by state kept outside the actor record
WorldChecked ==
    {"ABIL_ZIN_RECITE", "ABIL_ZIN_CURE_ALL_MUTATIONS", "ABIL_ZIN_SANCTUARY",
     "ABIL_ZIN_DONATE_GOLD", "ABIL_ELYVILON_PURIFICATION", "ABIL_LUGONU_ABYSS_EXIT",
     "ABIL_LUGONU_CORRUPT", "ABIL_LUGONU_ABYSS_ENTER", "ABIL_SIF_MUNA_FORGET_SPELL",
     "ABIL_ASHENZARI_TRANSFER_KNOWLEDGE", "ABIL_FEDHAS_EVOLUTION",
     "ABIL_FEDHAS_SPAWN_SPORES", "ABIL_BLINK", "ABIL_EVOKE_BLINK", "ABIL_EVOKE_BERSERK",
     "ABIL_TROG_BERSERK", "ABIL_EVOKE_FOG", "ABIL_GOZAG_POTION_PETITION",
     "ABIL_GOZAG_CALL_MERCHANT", "ABIL_GOZAG_BRIBE_BRANCH", "ABIL_PAKELLAS_QUICK_CHARGE"}
    \cup BreathAbilities

\* the switch on abil.ability: the answers it can give, TRUE for "possible"
ability_specific_check(y, abil) ==
    CASE abil.ability = "ABIL_MUMMY_RESTORATION" ->
            IF y.hp_max_adj_temp # 0 THEN {TRUE} ELSE {TRUE, FALSE}
      [] abil.ability = "ABIL_RU_SACRIFICE_EXPERIENCE" -> {y.experience_level > 2}
      [] abil.ability = "ABIL_PAKELLAS_DEVICE_SURGE" -> {y.magic_points # 0}
      [] abil.ability \in WorldChecked -> {TRUE, FALSE}
      [] OTHER -> {TRUE}

check_result(ok, reason, quiet, prompted, table, crashed) ==
    [ok |-> ok, reason |-> reason,
     msg |-> IF ok \/ (quiet /\ reason # "declined") THEN "" ELSE reason,
     prompted |-> prompted, table |-> table, crashed |-> crashed]

\* _check_ability_possible turning away only below the margin
_check_ability_possible_below_margin(y, cs, opts, abil, hungerCheck, quiet) ==
    LET asked(asks, table) ==
            (IF asks
             THEN {check_result(FALSE, "declined", quiet, TRUE, table, FALSE)}
             ELSE {})
            \cup {check_result(ok, IF ok THEN "" ELSE "specific", quiet, asks, table,
                               FALSE) :
                     ok \in ability_specific_check(y, abil)}
        heard(table) ==
            IF hungerCheck /\ y.undead_state = "US_ALIVE"
               /\ y.hunger - abil.food_cost * 2 < 50
            THEN {check_result(FALSE, "hungry", quiet, FALSE, table, FALSE)}
            ELSE IF "PERMANENT_MP" \in abil.flags /\ get_real_mp(y) < abil.mp_cost
            THEN {check_result(FALSE, "innate_mp", quiet, FALSE, table, FALSE)}
            ELSE asked(\E i \in 1..Len(opts.confirm_action) :
                          matches(opts.confirm_action[i], abil.ability),
                       table)
        silenced(silence_tal) ==
            IF silence_tal.crashed
            THEN {check_result(FALSE, "assert", quiet, FALSE, silence_tal.table, TRUE)}
            ELSE IF silence_tal.tal.is_invocation
            THEN {check_result(FALSE, "silenced", quiet, FALSE, silence_tal.table, FALSE)}
            ELSE heard(silence_tal.table)
    IN  IF y.berserk
        THEN {check_result(FALSE, "berserk", quiet, FALSE, y.ability_letter_table, FALSE)}
        ELSE IF y.confused /\ "CONF_OK" \notin abil.flags
        THEN {check_result(FALSE, "confused", quiet, FALSE, y.ability_letter_table, FALSE)}
        ELSE IF y.silenced
        THEN silenced(get_talent(y, cs, opts, abil.ability, FALSE))
        ELSE heard(y.ability_letter_table)

\* the mutation of _check_ability_possible that asks for confirmation first
_check_ability_possible_asking_first(y, cs, opts, abil, hungerCheck, quiet) ==
    LET asks == \E i \in 1..Len(opts.confirm_action) :
                    matches(opts.confirm_action[i], abil.ability)
        asked(table) ==
            {check_result(ok, IF ok THEN "" ELSE "specific", quiet, asks, table, FALSE) :
                ok \in ability_specific_check(y, abil)}
        heard(table) ==
            IF hungerCheck /\ y.undead_state = "US_ALIVE"
               /\ y.hunger - abil.food_cost * 2 <= 50
            THEN {check_result(FALSE, "hungry", quiet, asks, table, FALSE)}
            ELSE IF "PERMANENT_MP" \in abil.flags /\ get_real_mp(y) < abil.mp_cost
            THEN {check_result(FALSE, "innate_mp", quiet, asks, table, FALSE)}
            ELSE asked(table)
        silenced(silence_tal) ==
            IF silence_tal.crashed
            THEN {check_result(FALSE, "assert", quiet, asks, silence_tal.table, TRUE)}
            ELSE IF silence_tal.tal.is_invocation
            THEN {check_result(FALSE, "silenced", quiet, asks, silence_tal.table, FALSE)}
            ELSE heard(silence_tal.table)
    IN  (IF asks
         THEN {check_result(FALSE, "declined", quiet, TRUE, y.ability_letter_table, FALSE)}
         ELSE {})
        \cup
        (IF y.berserk
         THEN {check_result(FALSE, "berserk", quiet, asks, y.ability_letter_table, FALSE)}
         ELSE IF y.confused /\ "CONF_OK" \notin abil.flags
         THEN {check_result(FALSE, "confused", quiet, asks, y.ability_letter_table, FALSE)}
         ELSE IF y.silenced
         THEN silenced(get_talent(y, cs, opts, abil.ability, FALSE))
         ELSE heard(y.ability_letter_table))

_check_ability_possible(y, cs, opts, abil, hungerCheck, quiet) ==
    LET asked(asks, table) ==
            (IF asks
             THEN {check_result(FALSE, "declined", quiet, TRUE, table, FALSE)}
             ELSE {})
            \cup {check_result(ok, IF ok THEN "" ELSE "specific", quiet, asks, table,
                               FALSE) :
                     ok \in ability_specific_check(y, abil)}
        heard(table) ==
            IF hungerCheck /\ y.undead_state = "US_ALIVE"
               /\ y.hunger - abil.food_cost * 2 <= 50
            THEN {check_result(FALSE, "hungry", quiet, FALSE, table, FALSE)}
            ELSE IF "PERMANENT_MP" \in abil.flags /\ get_real_mp(y) < abil.mp_cost
            THEN {check_result(FALSE, "innate_mp", quiet, FALSE, table, FALSE)}
            ELSE asked(\E i \in 1..Len(opts.confirm_action) :
                          matches(opts.confirm_action[i], abil.ability),
                       table)
        silenced(silence_tal) ==
            IF silence_tal.crashed
            THEN {check_result(FALSE, "assert", quiet, FALSE, silence_tal.table, TRUE)}
            ELSE IF silence_tal.tal.is_invocation
            THEN {check_result(FALSE, "silenced", quiet, FALSE, silence_tal.table, FALSE)}
            ELSE heard(silence_tal.table)
    IN  IF y.berserk
        THEN {check_result(FALSE, "berserk", quiet, FALSE, y.ability_letter_table, FALSE)}
        ELSE IF y.confused /\ "CONF_OK" \notin abil.flags
        THEN {check_result(FALSE, "confused", quiet, FALSE, y.ability_letter_table, FALSE)}
        ELSE IF y.silenced
        THEN silenced(get_talent(y, cs, opts, abil.ability, FALSE))
        ELSE heard(y.ability_letter_table)

(***************************************************************************)
(* Effect dispatch: _do_ability.  The cases of its switch fall into a few  *)
(* shapes, by where fail_check() stands relative to the points that can    *)
(* return SPRET_ABORT.                                                     *)
(***************************************************************************)
\* return SPRET_ABORT possible (targeting), then fail_check(), then the effect
TargetThenFailCheck ==
    {"ABIL_SPIT_POISON", "ABIL_BREATHE_STICKY_FLAME", "ABIL_MAKHLEB_MINOR_DESTRUCTION",
     "ABIL_MAKHLEB_MAJOR_DESTRUCTION"}

\* targeting, fail_check(), then an effect that can still be cancelled
TargetFailCheckThenAbort ==
    {"ABIL_BREATHE_FIRE", "ABIL_BREATHE_FROST", "ABIL_BREATHE_POISON", "ABIL_SPIT_ACID",
     "ABIL_BREATHE_POWER", "ABIL_BREATHE_STEAM", "ABIL_BREATHE_MEPHITIC",
     "ABIL_ZIN_IMPRISON", "ABIL_YRED_ENSLAVE_SOUL", "ABIL_LUGONU_BANISH"}

\* fail_check(), then an effect that can still return SPRET_ABORT
FailCheckThenAbort ==
    {"ABIL_MUMMY_RESTORATION", "ABIL_RECHARGING", "ABIL_DIG", "ABIL_SHAFT_SELF",
     "ABIL_DELAYED_FIREBALL", "ABIL_HELLFIRE", "ABIL_ZIN_RECITE",
     "ABIL_ZIN_CURE_ALL_MUTATIONS", "ABIL_TSO_BLESS_WEAPON", "ABIL_KIKU_TORMENT",
     "ABIL_KIKU_BLESS_WEAPON", "ABIL_KIKU_GIFT_NECRONOMICON", "ABIL_YRED_ANIMATE_REMAINS",
     "ABIL_TROG_BURN_SPELLBOOKS", "ABIL_SIF_MUNA_FORGET_SPELL",
     "ABIL_ELYVILON_DIVINE_VIGOUR", "ABIL_LUGONU_CORRUPT", "ABIL_LUGONU_BLESS_WEAPON",
     "ABIL_NEMELEX_TRIPLE_DRAW", "ABIL_NEMELEX_DEAL_FOUR", "ABIL_NEMELEX_STACK_FIVE",
     "ABIL_BEOGH_SMITING", "ABIL_FEDHAS_PLANT_RING", "ABIL_FEDHAS_RAIN", "ABIL_TRAN_BAT",
     "ABIL_JIYVA_CALL_JELLY", "ABIL_CHEIBRIADOS_SLOUCH",
     "ABIL_ASHENZARI_TRANSFER_KNOWLEDGE", "ABIL_ASHENZARI_END_TRANSFER",
     "ABIL_DITHMENOS_SHADOW_STEP", "ABIL_DITHMENOS_SHADOW_FORM",
     "ABIL_GOZAG_BRIBE_BRANCH", "ABIL_QAZLAL_DISASTER_AREA",
     "ABIL_RU_SACRIFICE_PURITY", "ABIL_RU_SACRIFICE_WORDS", "ABIL_RU_SACRIFICE_DRINK",
     "ABIL_RU_SACRIFICE_ESSENCE", "ABIL_RU_SACRIFICE_HEALTH", "ABIL_RU_SACRIFICE_STEALTH",
     "ABIL_RU_SACRIFICE_ARTIFICE", "ABIL_RU_SACRIFICE_LOVE", "ABIL_RU_SACRIFICE_COURAGE",
     "ABIL_RU_SACRIFICE_ARCANA", "ABIL_RU_SACRIFICE_NIMBLENESS",
     "ABIL_RU_SACRIFICE_DURABILITY", "ABIL_RU_SACRIFICE_HAND",
     "ABIL_RU_SACRIFICE_EXPERIENCE", "ABIL_RU_SACRIFICE_SKILL", "ABIL_RU_SACRIFICE_EYE",
     "ABIL_RU_SACRIFICE_RESISTANCE", "ABIL_RU_REJECT_SACRIFICES", "ABIL_RU_DRAW_OUT_POWER",
     "ABIL_RU_POWER_LEAP", "ABIL_RU_APOCALYPSE", "ABIL_PAKELLAS_QUICK_CHARGE",
     "ABIL_PAKELLAS_SUPERCHARGE", "ABIL_RENOUNCE_RELIGION", "ABIL_CONVERT_TO_BEOGH"}

\* the whole case is "return f(fail)": f does the fail check and may abort
DelegatedFailCheck ==
    {"ABIL_BLINK", "ABIL_ELYVILON_HEAL_OTHER", "ABIL_FEDHAS_SUNLIGHT",
     "ABIL_FEDHAS_EVOLUTION", "ABIL_QAZLAL_UPHEAVAL"}

\* fail_check(), then "else if (!pakellas_device_surge()) return SPRET_FAIL"
EvokeWithSurge ==
    {"ABIL_EVOKE_BLINK", "ABIL_EVOKE_BERSERK", "ABIL_EVOKE_TURN_INVISIBLE",
     "ABIL_EVOKE_FLIGHT"}

\* no fail_check(): the roll only picks the summoned demon's attitude
HostileOnFailure ==
    {"ABIL_MAKHLEB_LESSER_SERVANT_OF_MAKHLEB", "ABIL_MAKHLEB_GREATER_SERVANT_OF_MAKHLEB"}

do_result(ret, y, effect) ==
    [ret |-> ret, you |-> y, effect |-> effect]

\* ABIL_MUMMY_RESTORATION after its fail check: restore_stat may or may not
\* restore an attribute; "if nothing happened, don't use a turn"
mummy_restoration(y) ==
    LET restored == unrot_hp(y, 9999)
    IN  {do_result("SPRET_SUCCESS", restored, "full")}
        \cup (IF restored.hp_max > y.hp_max THEN {}
              ELSE {do_result("SPRET_ABORT", restored, "none")})

\* the mutation of pakellas_quick_charge that spends the MP before the wand
\* prompt can cancel
pakellas_quick_charge_pays_first(y) ==
    LET mp_to_use == Max(1, (y.magic_points * 2) \div 3)
    IN  {do_result("SPRET_ABORT", dec_mp(y, mp_to_use), "none"),
         do_result("SPRET_SUCCESS", dec_mp(y, mp_to_use), "full")}

\* ABIL_PAKELLAS_QUICK_CHARGE after its fail check
pakellas_quick_charge(y) ==
    LET mp_to_use == Max(1, (y.magic_points * 2) \div 3)
    IN  {do_result("SPRET_ABORT", y, "none"),
         do_result("SPRET_SUCCESS", dec_mp(y, mp_to_use), "full")}

\* the effects that move the actor's pools or faith, once performed
ability_effect(y, abil) ==
    CASE abil.ability = "ABIL_SIF_MUNA_CHANNEL_ENERGY" ->
            {inc_mp(y, 1 + r) :
                r \in random2avg(skill(y, "SK_INVOCATIONS", 1) \div 4 + 2, 1)}
      [] abil.ability = "ABIL_ELYVILON_LESSER_HEALING" ->
            LET pow == Min(50, 3 + skill(y, "SK_INVOCATIONS", 1) \div 6)
            IN  {inc_hp(y, pow + 2 + r - 2) : r \in random2avg(2 * pow - 1, 1)}
      [] abil.ability = "ABIL_ELYVILON_GREATER_HEALING" ->
            LET pow == Min(50, 10 + skill(y, "SK_INVOCATIONS", 1) \div 3)
            IN  {inc_hp(y, pow + 2 + r - 2) : r \in random2avg(2 * pow - 1, 1)}
      [] abil.ability = "ABIL_LUGONU_ABYSS_ENTER" ->
            {IF y.magic_points # 0 THEN dec_mp(dec_hp(y, h), m) ELSE dec_hp(y, h) :
                h \in random2avg(y.hp, 2), m \in random2avg(y.magic_points, 2)}
      [] abil.ability = "ABIL_RENOUNCE_RELIGION" ->
            {[y EXCEPT !.religion = "GOD_NO_GOD", !.piety = 0]}
      [] abil.ability = "ABIL_CONVERT_TO_BEOGH" ->
            {[y EXCEPT !.religion = "GOD_BEOGH"]}
      [] OTHER -> {y}

\* the abilities whose effect changes a pool of the actor
PoolEffects ==
    {"ABIL_MUMMY_RESTORATION", "ABIL_PAKELLAS_QUICK_CHARGE", "ABIL_SIF_MUNA_CHANNEL_ENERGY",
     "ABIL_ELYVILON_LESSER_HEALING", "ABIL_ELYVILON_GREATER_HEALING",
     "ABIL_LUGONU_ABYSS_ENTER", "ABIL_RENOUNCE_RELIGION", "ABIL_CONVERT_TO_BEOGH"}

\* the mutation of after_fail_check in which every effect can fail for want
\* of a surge
after_fail_check_surging_all(y, abil, fail) ==
    {do_result("SPRET_FAIL", y, "none")}
    \cup (IF fail THEN {}
          ELSE {do_result("SPRET_SUCCESS", y2, "full") : y2 \in ability_effect(y, abil)})

\* fail_check() and what follows it
after_fail_check(y, abil, fail) ==
    IF fail THEN {do_result("SPRET_FAIL", y, "none")}
    ELSE CASE abil.ability = "ABIL_MUMMY_RESTORATION" -> mummy_restoration(y)
           [] abil.ability = "ABIL_PAKELLAS_QUICK_CHARGE" -> pakellas_quick_charge(y)
           [] OTHER ->
               (IF abil.ability \in FailCheckThenAbort \cup TargetFailCheckThenAbort
                                       \cup DelegatedFailCheck \cup {"ABIL_EVOKE_BLINK"}
                THEN {do_result("SPRET_ABORT", y, "none")} ELSE {})
               \cup (IF abil.ability \in EvokeWithSurge
                     THEN {do_result("SPRET_FAIL", y, "none")} ELSE {})
               \cup {do_result("SPRET_SUCCESS", y2, "full") : y2 \in ability_effect(y, abil)}

\* the mutation of makhleb_servant that checks for failure like any other case
makhleb_servant_fail_checked(y, fail) ==
    IF fail THEN {do_result("SPRET_FAIL", y, "none")}
    ELSE {do_result("SPRET_SUCCESS", y, "full")}

\* the servants of Makhleb: summon_demon_type(..., !fail), friendly unless the
\* roll failed
makhleb_servant(y, fail) ==
    {do_result("SPRET_SUCCESS", y, IF fail THEN "degraded" ELSE "full")}

_do_ability(y, abil, fail) ==
    CASE abil.ability \in TargetThenFailCheck \cup TargetFailCheckThenAbort ->
            {do_result("SPRET_ABORT", y, "none")} \cup after_fail_check(y, abil, fail)
      [] abil.ability \in HostileOnFailure -> makhleb_servant(y, fail)
      [] abil.ability = "ABIL_BEOGH_GIFT_ITEM" ->
            {do_result("SPRET_ABORT", y, "none"), do_result("SPRET_SUCCESS", y, "full")}
      [] abil.ability = "ABIL_NON_ABILITY" ->
            IF fail THEN {do_result("SPRET_FAIL", y, "none")}
            ELSE {do_result("SPRET_SUCCESS", y, "none")}
      [] abil.ability \in DelegatedFailCheck ->
            {do_result("SPRET_ABORT", y, "none")} \cup after_fail_check(y, abil, fail)
      [] OTHER -> after_fail_check(y, abil, fail)

(***************************************************************************)
(* One attempt: activate_talent.  Each result is the state the call        *)
(* leaves behind together with what it did on the way.                     *)
(***************************************************************************)
NoHungerCheck ==
    {"ABIL_RENOUNCE_RELIGION", "ABIL_CONVERT_TO_BEOGH", "ABIL_STOP_FLYING",
     "ABIL_EVOKE_TURN_VISIBLE", "ABIL_END_TRANSFORMATION", "ABIL_DELAYED_FIREBALL",
     "ABIL_STOP_SINGING", "ABIL_MUMMY_RESTORATION", "ABIL_TRAN_BAT",
     "ABIL_ASHENZARI_END_TRANSFER"}

attempt_result(y, cs, outcome, value, reason, rolled, fail, paid, charged, effect, practised) ==
    [you |-> y, crawl_state |-> cs, outcome |-> outcome, value |-> value,
     reason |-> reason, rolled |-> rolled, fail |-> fail, pay_calls |-> paid,
     charged |-> charged, effect |-> effect, practised |-> practised]

\* "crawl_state.zero_turns_taken(); return false;"
abort_attempt(y, cs, reason, rolled, fail) ==
    attempt_result(y, [cs EXCEPT !.zero_turns = TRUE], "Aborted", FALSE, reason,
                   rolled, fail, 0, NoCharge, "none", FALSE)

\* case SPRET_SUCCESS: the ASSERT, practise, _pay_ability_costs, return true
on_success(cs, abil, fail, d) ==
    IF fail /\ "HOSTILE" \notin abil.flags
    THEN {attempt_result(d.you, cs, "Crashed", FALSE, "assert", TRUE, fail, 0,
                         NoCharge, d.effect, FALSE)}
    ELSE {attempt_result(p.you, cs, "Succeeded", TRUE, "", TRUE, fail, 1,
                         p.charged, d.effect, TRUE) :
             p \in _pay_ability_costs(d.you, cs, abil)}

\* the mutation of on_fail that settles the costs of a failed attempt
on_fail_paying(cs, abil, fail, d) ==
    {attempt_result([p.you EXCEPT !.turn_is_over = TRUE], cs, "Failed", FALSE, "",
                    TRUE, fail, 1, p.charged, d.effect, FALSE) :
        p \in _pay_ability_costs(d.you, cs, abil)}

\* the mutation of on_fail that reports a failed attempt as a spent turn
on_fail_returning_true(cs, abil, fail, d) ==
    {attempt_result([d.you EXCEPT !.turn_is_over = TRUE], cs, "Failed", TRUE, "",
                    TRUE, fail, 0, NoCharge, d.effect, FALSE)}

\* case SPRET_FAIL: "You fail to use your ability.", the turn is over, return false
on_fail(cs, abil, fail, d) ==
    {attempt_result([d.you EXCEPT !.turn_is_over = TRUE], cs, "Failed", FALSE, "",
                    TRUE, fail, 0, NoCharge, d.effect, FALSE)}

\* the mutation of on_abort that ends the turn instead of raising zero_turns
on_abort_ending_turn(cs, abil, fail, d) ==
    {attempt_result([d.you EXCEPT !.turn_is_over = TRUE], cs, "Aborted", FALSE,
                    "cancelled", TRUE, fail, 0, NoCharge, "none", FALSE)}

\* case SPRET_ABORT: zero_turns_taken, return false
on_abort(cs, abil, fail, d) ==
    {abort_attempt(d.you, cs, "cancelled", TRUE, fail)}

\* the mutation of the switch that takes an unknown return value for a
\* cancelled attempt
ability_result_switch_lenient(cs, abil, fail, d) ==
    CASE d.ret = "SPRET_SUCCESS" -> on_success(cs, abil, fail, d)
      [] d.ret = "SPRET_FAIL" -> on_fail(cs, abil, fail, d)
      [] OTHER -> on_abort(cs, abil, fail, d)

\* the switch on what _do_ability returned
ability_result_switch(cs, abil, fail, d) ==
    CASE d.ret = "SPRET_SUCCESS" -> on_success(cs, abil, fail, d)
      [] d.ret = "SPRET_FAIL" -> on_fail(cs, abil, fail, d)
      [] d.ret = "SPRET_ABORT" -> on_abort(cs, abil, fail, d)
      [] OTHER ->
            {attempt_result(d.you, cs, "Crashed", FALSE, "die", TRUE, fail, 0,
                            NoCharge, d.effect, FALSE)}

\* the mutation of safety_vetoes that asks the dungeon after the failure roll
safety_vetoes_after_roll(y, cs, tal) ==
    IF tal.which \in {"ABIL_STOP_FLYING", "ABIL_TRAN_BAT", "ABIL_END_TRANSFORMATION",
                      "ABIL_EVOKE_BERSERK", "ABIL_TROG_BERSERK", "ABIL_EVOKE_FLIGHT",
                      "ABIL_FLY"}
    THEN {abort_attempt(y, cs, "unsafe", TRUE, fail) : fail \in BOOLEAN}
    ELSE {}

\* the vetoes of the dungeon asked before any cost check: a fatal landing,
\* a form change onto deadly terrain or with too low attributes, no berserk,
\* no flight
safety_vetoes(y, cs, tal) ==
    (IF tal.which \in {"ABIL_STOP_FLYING", "ABIL_TRAN_BAT", "ABIL_END_TRANSFORMATION"}
     THEN {abort_attempt(y, cs, "unsafe", FALSE, FALSE)} ELSE {})
    \cup (IF tal.which \in {"ABIL_EVOKE_BERSERK", "ABIL_TROG_BERSERK"}
          THEN {abort_attempt(y, cs, "cannot_berserk", FALSE, FALSE)} ELSE {})
    \cup (IF tal.which \in {"ABIL_EVOKE_FLIGHT", "ABIL_TRAN_BAT", "ABIL_FLY"}
          THEN {abort_attempt(y, cs, "no_flight", FALSE, FALSE)} ELSE {})

\* from "bool fail = random2avg(100, 3) < tal.fail" to the end
roll_and_do(y, cs, abil, tal) ==
    UNION {UNION {ability_result_switch(cs, abil, roll < tal.fail, d) :
                     d \in _do_ability(y, abil, roll < tal.fail)} :
              roll \in random2avg(100, 3)}

\* the mutation of activate_talent that does not look at what the actor can
\* afford
activate_talent_unaffordable(y, cs, opts, tal) ==
    LET hungerCheck == tal.which \notin NoHungerCheck
        checked(abil, c, y1) ==
            IF c.crashed
            THEN {attempt_result(y1, cs, "Crashed", FALSE, "assert", FALSE, FALSE, 0,
                                 NoCharge, "none", FALSE)}
            ELSE IF ~c.ok
            THEN {abort_attempt(y1, cs, c.reason, FALSE, FALSE)}
            ELSE roll_and_do(y1, cs, abil, tal)
        affordable(abil, hpcost) ==
            IF hungerCheck /\ y.undead_state = "US_ALIVE" /\ ~you_foodless(y)
               /\ hunger_state_starving(y)
            THEN {abort_attempt(y, cs, "starving", FALSE, FALSE)}
            ELSE UNION {checked(abil, c, [y EXCEPT !.ability_letter_table = c.table]) :
                           c \in _check_ability_possible(y, cs, opts, abil, hungerCheck,
                                                         FALSE)}
        defined(abil) == affordable(abil, scaling_cost_cost(abil.hp_cost, y.hp_max))
    IN  IF y.berserk THEN {abort_attempt(y, cs, "berserk", FALSE, FALSE)}
        ELSE safety_vetoes(y, cs, tal) \cup defined(get_ability_def(tal.which))

activate_talent(y, cs, opts, tal) ==
    LET hungerCheck == tal.which \notin NoHungerCheck
        checked(abil, c, y1) ==
            IF c.crashed
            THEN {attempt_result(y1, cs, "Crashed", FALSE, "assert", FALSE, FALSE, 0,
                                 NoCharge, "none", FALSE)}
            ELSE IF ~c.ok
            THEN {abort_attempt(y1, cs, c.reason, FALSE, FALSE)}
            ELSE roll_and_do(y1, cs, abil, tal)
        affordable(abil, hpcost) ==
            IF hungerCheck /\ y.undead_state = "US_ALIVE" /\ ~you_foodless(y)
               /\ hunger_state_starving(y)
            THEN {abort_attempt(y, cs, "starving", FALSE, FALSE)}
            ELSE IF abil.mp_cost > 0 /\ ~enough_mp(y, abil.mp_cost)
            THEN {abort_attempt(y, cs, "no_mp", FALSE, FALSE)}
            ELSE IF hpcost > 0 /\ ~enough_hp(y, hpcost)
            THEN {abort_attempt(y, cs, "no_hp", FALSE, FALSE)}
            ELSE UNION {checked(abil, c, [y EXCEPT !.ability_letter_table = c.table]) :
                           c \in _check_ability_possible(y, cs, opts, abil, hungerCheck,
                                                         FALSE)}
        defined(abil) == affordable(abil, scaling_cost_cost(abil.hp_cost, y.hp_max))
    IN  IF y.berserk THEN {abort_attempt(y, cs, "berserk", FALSE, FALSE)}
        ELSE safety_vetoes(y, cs, tal) \cup defined(get_ability_def(tal.which))

(***************************************************************************)
(* States.                                                                 *)
(***************************************************************************)
\* bounds of the actor's pools
MaxMP == 10

MaxHP == 40

AbilityIds == DOMAIN ability_index.of

\* values of ability_type that have no entry in Ability_List
UnregisteredIds == {"ABIL_UNREGISTERED", "NUM_ABILITIES"}

EmptyTable == [slot \in 0..51 |-> "ABIL_NON_ABILITY"]

\* the pools and their maxima
pools(y) ==
    [magic_points |-> y.magic_points, max_magic_points |-> y.max_magic_points,
     hp |-> y.hp, hp_max |-> y.hp_max, hunger |-> y.hunger, piety |-> y.piety]

NoAttempt ==
    [phase |-> "idle", which |-> "ABIL_NON_ABILITY", tal_fail |-> 0,
     pre |-> [magic_points |-> 0, max_magic_points |-> 0, hp |-> 0, hp_max |-> 0,
              hunger |-> 0, piety |-> 0],
     outcome |-> "none", value |-> FALSE, reason |-> "", rolled |-> FALSE, fail |-> FALSE,
     pay_calls |-> 0, charged |-> NoCharge, effect |-> "none", practised |-> FALSE]

\* no function of the engine has been called yet
NoCall == [op |-> "none"]

\* a living, calm, well-fed human of no faith at full health
Player ==
    [species |-> "SP_HUMAN", religion |-> "GOD_NO_GOD", penance |-> FALSE, piety |-> 0,
     experience_level |-> 1,
     skills |-> [SK_INVOCATIONS |-> 0, SK_EVOCATIONS |-> 0, SK_NECROMANCY |-> 0],
     mutation |-> [MUT_SPIT_POISON |-> 0, MUT_BLINK |-> 0],
     form |-> "TRAN_NONE", undead_state |-> "US_ALIVE", recall_list |-> <<>>,
     has |-> {}, sacrifices |-> <<>>, transfer_skill_points |-> 0,
     berserk |-> FALSE, confused |-> FALSE, silenced |-> FALSE,
     magic_points |-> MaxMP, max_magic_points |-> MaxMP, mp_from_items |-> 0,
     hp |-> MaxHP, hp_max |-> MaxHP, hp_max_adj_temp |-> 0,
     hunger |-> 6000, turn_is_over |-> FALSE,
     ability_letter_table |-> EmptyTable]

\* how trained and how devout the actor is
Builds ==
    {[experience_level |-> 1, skill |-> 0, piety |-> 15, mutations |-> 1],
     [experience_level |-> 27, skill |-> 27, piety |-> 160, mutations |-> 3]}

\* the state of the pools: [magic_points, mp_from_items, hp, hp_max_adj_temp, hunger]
Pools ==
    {<<MaxMP, 0, MaxHP, 0, 6000>>,
     <<0, 0, MaxHP, 0, 6000>>,
     <<MaxMP \div 3, 0, MaxHP, 0, 6000>>,
     <<MaxMP, MaxMP, MaxHP, 0, 6000>>,
     <<MaxMP, 0, 1, 0, 6000>>,
     <<MaxMP, 0, MaxHP \div 8, 0, 6000>>,
     <<MaxMP, 0, MaxHP, -3, 6000>>,
     <<MaxMP, 0, MaxHP, 0, 1000>>,
     <<MaxMP, 0, MaxHP, 0, 900>>,
     <<MaxMP, 0, MaxHP, 0, 1251>>}

\* [berserk, confused, silenced, undead_state]
Conditions ==
    {<<FALSE, FALSE, FALSE, "US_ALIVE">>,
     <<TRUE, FALSE, FALSE, "US_ALIVE">>,
     <<FALSE, TRUE, FALSE, "US_ALIVE">>,
     <<FALSE, FALSE, TRUE, "US_ALIVE">>,
     <<FALSE, TRUE, TRUE, "US_ALIVE">>,
     <<FALSE, FALSE, FALSE, "US_UNDEAD">>,
     <<FALSE, FALSE, TRUE, "US_UNDEAD">>}

MakePlayer(b, p, c) ==
    [Player EXCEPT
        !.experience_level = b.experience_level,
        !.skills = [SK_INVOCATIONS |-> b.skill, SK_EVOCATIONS |-> b.skill,
                    SK_NECROMANCY |-> b.skill],
        !.mutation = [MUT_SPIT_POISON |-> b.mutations, MUT_BLINK |-> b.mutations],
        !.piety = b.piety,
        !.magic_points = p[1], !.mp_from_items = p[2], !.hp = p[3],
        !.hp_max_adj_temp = p[4], !.hp_max = MaxHP + p[4], !.hunger = p[5],
        !.berserk = c[1], !.confused = c[2], !.silenced = c[3], !.undead_state = c[4]]

\* Options.confirm_action: no pattern, or one that matches every ability
ConfirmOptions == {<<>>, <<AbilityIds>>}

Init ==
    /\ you \in {MakePlayer(b, p, c) : b \in Builds, p \in Pools, c \in Conditions}
    /\ crawl_state \in {[game_is_sprint |-> s, zero_turns |-> FALSE, brdepth_abyss |-> 1] :
                           s \in BOOLEAN}
    /\ Options \in {[confirm_action |-> ca, auto_ability_letters |-> <<>>] :
                       ca \in ConfirmOptions}
    /\ talents = <<>>
    /\ built = <<>>
    /\ died = FALSE
    /\ att = NoAttempt
    /\ call = NoCall

(***************************************************************************)
(* The player uses one of the talents offered: activate_talent(tal).       *)
(***************************************************************************)
ActivateTalent ==
    /\ att.phase = "idle"
    /\ \E ability \in AbilityIds \ {"ABIL_NON_ABILITY"},
          check_confused \in (IF you.confused THEN BOOLEAN ELSE {FALSE}) :
          \E g \in {get_talent(you, crawl_state, Options, ability, check_confused)} :
              /\ g.tal.which # "ABIL_NON_ABILITY"
              /\ \E r \in activate_talent(you, crawl_state, Options, g.tal) :
                    /\ you' = r.you
                    /\ crawl_state' = r.crawl_state
                    /\ died' = (r.outcome = "Crashed")
                    /\ att' = [phase |-> "done", which |-> g.tal.which,
                               tal_fail |-> g.tal.fail, pre |-> pools(you),
                               outcome |-> r.outcome, value |-> r.value,
                               reason |-> r.reason, rolled |-> r.rolled, fail |-> r.fail,
                               pay_calls |-> r.pay_calls, charged |-> r.charged,
                               effect |-> r.effect, practised |-> r.practised]
    /\ UNCHANGED <<Options, talents, built, call>>

Next == ActivateTalent

Spec == Init /\ [][Next]_vars

(***************************************************************************)
(* The ability menu: the game computes the talents on offer, the player    *)
(* moves an offered talent to the letter Z, the actor gains an ability.    *)
(***************************************************************************)
\* how many entries the fullest-but-one tables of the start leave free
FreeSlots == 2

\* a slot table that earlier offers have filled with n identities, in the
\* order of the registry from the first of Okawaru's abilities on; the
\* offers come in four rounds
StaleTable(n) ==
    LET offer(table, from, to) ==
            _add_talent(<<>>, [Player EXCEPT !.ability_letter_table = table],
                        [game_is_sprint |-> FALSE, zero_turns |-> FALSE,
                         brdepth_abyss |-> 1],
                        [confirm_action |-> <<>>, auto_ability_letters |-> <<>>],
                        [i \in 1..(to - from + 1) |-> Ability_List[48 + from + i].ability],
                        1, FALSE).table
    IN  offer(offer(offer(offer(EmptyTable, 1, 13), 14, 26), 27, 39), 40, n)

\* whether no letter is left unassigned
all_letters_assigned(table) ==
    \A slot \in 0..51 : table[slot] # "ABIL_NON_ABILITY"

\* the actors of the menu
SlotActors ==
    {[Player EXCEPT !.species = "SP_NAGA",
                    !.mutation = [MUT_SPIT_POISON |-> 1, MUT_BLINK |-> 1]],
     [Player EXCEPT !.species = "SP_NAGA",
                    !.mutation = [MUT_SPIT_POISON |-> 3, MUT_BLINK |-> 0]],
     [Player EXCEPT !.religion = "GOD_TROG", !.piety = 100,
                    !.has = {"evokable_berserk"}],
     [Player EXCEPT !.religion = "GOD_TROG", !.piety = 50, !.penance = TRUE,
                    !.silenced = TRUE],
     [Player EXCEPT !.religion = "GOD_YREDELEMNUL", !.piety = 60,
                    !.recall_list = <<1>>],
     [Player EXCEPT !.religion = "GOD_YREDELEMNUL", !.piety = 160],
     [Player EXCEPT !.religion = "GOD_RU", !.piety = 30,
                    !.sacrifices = <<"ABIL_RU_SACRIFICE_WORDS", "ABIL_RU_SACRIFICE_HAND">>],
     [Player EXCEPT !.species = "SP_TENGU", !.confused = TRUE,
                    !.has = {"MUT_TENGU_FLIGHT", "evokable_flight", "ARTP_FOG"}],
     [Player EXCEPT !.species = "SP_FORMICID",
                    !.mutation = [MUT_SPIT_POISON |-> 0, MUT_BLINK |-> 1],
                    !.has = {"ARTP_BLINK", "evokable_berserk"}],
     [Player EXCEPT !.religion = "GOD_RU", !.piety = 100, !.confused = TRUE,
                    !.sacrifices = <<"ABIL_RU_SACRIFICE_DRINK">>],
     [Player EXCEPT !.religion = "GOD_RU", !.piety = 30, !.silenced = TRUE,
                    !.sacrifices = <<"ABIL_RU_SACRIFICE_EYE">>],
     [Player EXCEPT !.religion = "GOD_ASHENZARI", !.piety = 120, !.silenced = TRUE,
                    !.transfer_skill_points = 5]}

\* what the actor may come to have while the menu is in use
Gainable == {"MUT_HURL_HELLFIRE", "ATTR_DELAYED_FIREBALL"}

\* Options.auto_ability_letters: no rule, or "ability_slot += hellfire|spit poison:+a"
SlotRules ==
    {<<>>, <<[first |-> {"ABIL_HELLFIRE", "ABIL_SPIT_POISON"}, second |-> <<43, 97>>]>>}

InitSlots ==
    /\ you \in {[actor EXCEPT !.ability_letter_table = table] :
                   actor \in SlotActors,
                   table \in {EmptyTable} \cup {StaleTable(52 - free) : free \in 0..FreeSlots}}
    /\ crawl_state = [game_is_sprint |-> FALSE, zero_turns |-> FALSE, brdepth_abyss |-> 1]
    /\ Options \in {[confirm_action |-> <<>>, auto_ability_letters |-> rules] :
                       rules \in SlotRules}
    /\ talents = <<>>
    /\ built = <<>>
    /\ died = FALSE
    /\ att = NoAttempt
    /\ call = NoCall

\* the game computes the talents on offer: your_talents(check_confused,
\* include_unusable)
YourTalents ==
    /\ ~died
    /\ \E check_confused \in (IF you.confused THEN BOOLEAN ELSE {FALSE}),
          include_unusable \in BOOLEAN :
          \E r \in {your_talents(you, crawl_state, Options, check_confused,
                                include_unusable)} :
              /\ talents' = r.talents
              /\ built' = r.built
              /\ died' = r.crashed
              /\ you' = [you EXCEPT !.ability_letter_table = r.table]
              /\ call' = [op |-> "your_talents", check_confused |-> check_confused,
                          include_unusable |-> include_unusable]
    /\ UNCHANGED <<crawl_state, Options, att>>

\* the player moves an offered talent to the last letter, which none of the
\* talents on offer has yet: swap_ability_slots(index1, 51); the list on
\* offer is stale afterwards
SwapAbilitySlots ==
    /\ ~died
    /\ \A other \in DOMAIN talents : talents[other].hotkey # index_to_letter(51)
    /\ \E i \in DOMAIN talents :
          /\ isaalpha(talents[i].hotkey)
          /\ you' = [you EXCEPT !.ability_letter_table =
                        swap_ability_slots(you.ability_letter_table,
                                           letter_to_index(talents[i].hotkey), 51)]
    /\ talents' = <<>>
    /\ built' = <<>>
    /\ call' = NoCall
    /\ UNCHANGED <<crawl_state, Options, att, died>>

\* the actor's state changes: a mutation or a stored spell grants an ability
GainAbility ==
    /\ ~died
    /\ \E what \in Gainable \ you.has : you' = [you EXCEPT !.has = @ \cup {what}]
    /\ talents' = <<>>
    /\ built' = <<>>
    /\ call' = NoCall
    /\ UNCHANGED <<crawl_state, Options, att, died>>

NextSlots == YourTalents \/ SwapAbilitySlots \/ GainAbility

SpecSlots == InitSlots /\ [][NextSlots]_vars

(***************************************************************************)
(* The costs of the registry evaluated: generic_cost::cost() and           *)
(* scaling_cost::cost(max).                                                *)
(***************************************************************************)
\* the largest amount a discrete cost is built from
MaxCost == 6

\* the largest number of rolls of a discrete cost
MaxRolls == 3

\* the per-mille magnitudes of the registry and two more
ScalingMagnitudes == {0, 20, 50, 150, 1000}

\* the fixed hit point costs of the registry, and none
FixedAmounts == {0, 1, 4, 5, 6, 10}

\* the discrete costs as their three builders make them, rolled 1..MaxRolls times
GenericCosts ==
    {[built |-> "num", low |-> n, high |-> n, cost |-> generic_cost(n)] : n \in 0..MaxCost}
    \cup {[built |-> "fixed", low |-> n, high |-> n, cost |-> generic_cost_fixed(n)] :
             n \in 0..MaxCost}
    \cup {[built |-> "range", low |-> lh[1], high |-> lh[2],
           cost |-> [generic_cost_range(lh[1], lh[2]) EXCEPT !.rolls = rolls]] :
             lh \in {x \in (0..MaxCost) \X (0..MaxCost) : x[1] <= x[2]},
             rolls \in 1..MaxRolls}

InitCosts ==
    /\ you = Player
    /\ crawl_state = [game_is_sprint |-> FALSE, zero_turns |-> FALSE, brdepth_abyss |-> 1]
    /\ Options = [confirm_action |-> <<>>, auto_ability_letters |-> <<>>]
    /\ talents = <<>>
    /\ built = <<>>
    /\ died = FALSE
    /\ att = NoAttempt
    /\ call = NoCall

\* scaling_cost(permille).cost(max)
ScalingCostCost ==
    /\ call = NoCall
    /\ \E permille \in ScalingMagnitudes, max \in 0..MaxHP :
          call' = [op |-> "scaling_cost::cost", built |-> "permille", arg |-> permille,
                   max |-> max, result |-> scaling_cost_cost(scaling_cost(permille), max)]
    /\ UNCHANGED <<you, crawl_state, Options, talents, built, died, att>>

\* scaling_cost::fixed(fixed).cost(max)
FixedScalingCostCost ==
    /\ call = NoCall
    /\ \E fixed \in FixedAmounts, max \in 0..MaxHP :
          call' = [op |-> "scaling_cost::cost", built |-> "fixed", arg |-> fixed,
                   max |-> max, result |-> scaling_cost_cost(scaling_cost_fixed(fixed), max)]
    /\ UNCHANGED <<you, crawl_state, Options, talents, built, died, att>>

\* generic_cost::cost()
GenericCostCost ==
    /\ call = NoCall
    /\ \E c \in GenericCosts :
          \E result \in generic_cost_cost(c.cost) :
              call' = [op |-> "generic_cost::cost", built |-> c.built, low |-> c.low,
                       high |-> c.high, cost |-> c.cost, result |-> result]
    /\ UNCHANGED <<you, crawl_state, Options, talents, built, died, att>>

NextCosts == ScalingCostCost \/ FixedScalingCostCost \/ GenericCostCost

SpecCosts == InitCosts /\ [][NextCosts]_vars

(***************************************************************************)
(* The functions that read the actor's state, called on their own:         *)
(* fixup_ability, get_god_abilities, _check_ability_possible.              *)
(***************************************************************************)
\* the actors of the calls: those of the menu, a felid, a mummy, two
\* worshippers under several impairments at once, and one whose magic all
\* comes from items
CallActors ==
    SlotActors
    \cup {[Player EXCEPT !.species = "SP_FELID", !.religion = "GOD_TROG", !.piety = 60,
                         !.penance = TRUE],
          [Player EXCEPT !.species = "SP_MUMMY", !.undead_state = "US_UNDEAD",
                         !.religion = "GOD_YREDELEMNUL", !.piety = 40,
                         !.has = {"MUT_MUMMY_RESTORATION"}],
          [Player EXCEPT !.religion = "GOD_TROG", !.piety = 100, !.berserk = TRUE,
                         !.confused = TRUE, !.silenced = TRUE],
          [Player EXCEPT !.religion = "GOD_TROG", !.piety = 100, !.confused = TRUE,
                         !.silenced = TRUE],
          [Player EXCEPT !.mp_from_items = MaxMP, !.silenced = TRUE]}

\* how full the actor is: on either side of the margin for a food cost of 0,
\* 100 and 600, and well fed
HungerLevels == {50, 51, 250, 251, 1250, 1251, 6000}

InitCalls ==
    /\ you \in {[actor EXCEPT !.hunger = hunger] :
                   actor \in CallActors, hunger \in HungerLevels}
    /\ crawl_state \in {[game_is_sprint |-> FALSE, zero_turns |-> FALSE,
                         brdepth_abyss |-> depth] : depth \in {1, -1}}
    /\ Options \in {[confirm_action |-> ca, auto_ability_letters |-> <<>>] :
                       ca \in ConfirmOptions}
    /\ talents = <<>>
    /\ built = <<>>
    /\ died = FALSE
    /\ att = NoAttempt
    /\ call = NoCall

\* fixup_ability(ability), and fixup_ability of what it returned
FixupAbility ==
    /\ call = NoCall
    /\ \E ability \in AbilityIds :
          \E result \in {fixup_ability(you, crawl_state, ability)} :
              call' = [op |-> "fixup_ability", ability |-> ability, result |-> result,
                       again |-> fixup_ability(you, crawl_state, result)]
    /\ UNCHANGED <<you, crawl_state, Options, talents, built, died, att>>

\* get_god_abilities(ignore_silence, ignore_piety, ignore_penance)
GetGodAbilities ==
    /\ call = NoCall
    /\ \E ignore_silence \in BOOLEAN, ignore_piety \in BOOLEAN, ignore_penance \in BOOLEAN :
          \E r \in {get_god_abilities(you, crawl_state, ignore_silence, ignore_piety,
                                      ignore_penance)} :
              /\ call' = [op |-> "get_god_abilities", ignore_silence |-> ignore_silence,
                          ignore_piety |-> ignore_piety, ignore_penance |-> ignore_penance,
                          abilities |-> r.abilities]
              /\ died' = r.crashed
    /\ UNCHANGED <<you, crawl_state, Options, talents, built, att>>

\* check_ability_possible(ability, hungerCheck, quiet), which looks the
\* definition up and calls _check_ability_possible; the silence test goes
\* through get_talent, which may bind a slot
CheckAbilityPossible ==
    /\ call = NoCall
    /\ \E ability \in (AbilityIds \ {"ABIL_NON_ABILITY"}) \cup UnregisteredIds,
          hungerCheck \in BOOLEAN, quiet \in BOOLEAN :
          \E r \in _check_ability_possible(you, crawl_state, Options,
                                           get_ability_def(ability), hungerCheck, quiet) :
              /\ call' = [op |-> "_check_ability_possible", ability |-> ability,
                          hungerCheck |-> hungerCheck, quiet |-> quiet, ok |-> r.ok,
                          reason |-> r.reason, msg |-> r.msg, prompted |-> r.prompted]
              /\ you' = [you EXCEPT !.ability_letter_table = r.table]
              /\ died' = r.crashed
    /\ UNCHANGED <<crawl_state, Options, talents, built, att>>

\* get_talent(ability, check_confused), and get_talent of the identity that
\* fixup_ability gives for it
GetTalent ==
    /\ call = NoCall
    /\ \E ability \in AbilityIds \ {"ABIL_NON_ABILITY"}, check_confused \in BOOLEAN :
          \E g \in {get_talent(you, crawl_state, Options, ability, check_confused)},
             resolved \in {fixup_ability(you, crawl_state, ability)} :
              /\ call' = [op |-> "get_talent", ability |-> ability,
                          check_confused |-> check_confused, resolved |-> resolved,
                          tal |-> g.tal,
                          of_resolved |->
                              IF resolved = "ABIL_NON_ABILITY" THEN g.tal
                              ELSE get_talent(you, crawl_state, Options, resolved,
                                              check_confused).tal]
              /\ you' = [you EXCEPT !.ability_letter_table = g.table]
              /\ died' = g.crashed
    /\ UNCHANGED <<crawl_state, Options, talents, built, att>>

NextCalls == FixupAbility \/ GetGodAbilities \/ CheckAbilityPossible \/ GetTalent

SpecCalls == InitCalls /\ [][NextCalls]_vars

(***************************************************************************)
(* The registry read on its own: get_ability_def and ability_by_name.      *)
(***************************************************************************)
\* the keys looked up: every name of the table as it is spelt, in lower
\* case, in upper case and with the case of every letter swapped; every
\* name with a letter appended; the empty string
NameKeys ==
    LET upper(s) == [i \in 1..Len(s) |->
                        IF s[i] >= 97 /\ s[i] <= 122 THEN s[i] - 32 ELSE s[i]]
        swapped(s) == [i \in 1..Len(s) |->
                          IF s[i] >= 97 /\ s[i] <= 122 THEN s[i] - 32
                          ELSE IF s[i] >= 65 /\ s[i] <= 90 THEN s[i] + 32 ELSE s[i]]
        variants(s) == {s, lowercase_string(s), upper(s), swapped(s), Append(s, 120)}
    IN  UNION {variants(Spelling[i][2]) : i \in 1..Len(Spelling)} \cup {<<>>}

InitRegistry ==
    /\ you = Player
    /\ crawl_state = [game_is_sprint |-> FALSE, zero_turns |-> FALSE, brdepth_abyss |-> 1]
    /\ Options = [confirm_action |-> <<>>, auto_ability_letters |-> <<>>]
    /\ talents = <<>>
    /\ built = <<>>
    /\ died = FALSE
    /\ att = NoAttempt
    /\ call = NoCall

\* get_ability_def(abil)
GetAbilityDef ==
    /\ call = NoCall
    /\ \E abil \in AbilityIds \cup UnregisteredIds :
          call' = [op |-> "get_ability_def", abil |-> abil,
                   result |-> get_ability_def(abil)]
    /\ UNCHANGED <<you, crawl_state, Options, talents, built, died, att>>

\* ability_by_name(key)
AbilityByName ==
    /\ call = NoCall
    /\ \E key \in NameKeys :
          call' = [op |-> "ability_by_name", key |-> key, result |-> ability_by_name(key)]
    /\ UNCHANGED <<you, crawl_state, Options, talents, built, died, att>>

NextRegistry == GetAbilityDef \/ AbilityByName

SpecRegistry == InitRegistry /\ [][NextRegistry]_vars

(***************************************************************************)
(* The effect executor and the switch on its return value, each on its     *)
(* own: _do_ability(abil, fail), and the switch of activate_talent fed     *)
(* with every value of spret_type.                                         *)
(***************************************************************************)
\* the values of spret_type
spret_type == {"SPRET_ABORT", "SPRET_FAIL", "SPRET_SUCCESS", "SPRET_NONE"}

InitEffects ==
    /\ you \in {MakePlayer(b, p, <<FALSE, FALSE, FALSE, "US_ALIVE">>) :
                   b \in Builds,
                   p \in {<<MaxMP, 0, MaxHP, 0, 6000>>, <<MaxMP \div 3, 0, MaxHP \div 8, 0, 6000>>,
                          <<0, 0, MaxHP, -3, 6000>>}}
    /\ crawl_state = [game_is_sprint |-> FALSE, zero_turns |-> FALSE, brdepth_abyss |-> 1]
    /\ Options = [confirm_action |-> <<>>, auto_ability_letters |-> <<>>]
    /\ talents = <<>>
    /\ built = <<>>
    /\ died = FALSE
    /\ att = NoAttempt
    /\ call = NoCall

\* _do_ability(abil, fail)
DoAbility ==
    /\ call = NoCall
    /\ \E ability \in AbilityIds, fail \in BOOLEAN :
          \E d \in _do_ability(you, get_ability_def(ability), fail) :
              /\ call' = [op |-> "_do_ability", ability |-> ability, fail |-> fail,
                          ret |-> d.ret, effect |-> d.effect]
              /\ you' = d.you
    /\ UNCHANGED <<crawl_state, Options, talents, built, died, att>>

\* "switch (_do_ability(abil, fail))" of activate_talent, for each value the
\* type of the call allows
AbilityResultSwitch ==
    /\ call = NoCall
    /\ \E ability \in AbilityIds, fail \in BOOLEAN, ret \in spret_type :
          \E r \in ability_result_switch(crawl_state, get_ability_def(ability), fail,
                                         do_result(ret, you, "none")) :
              /\ call' = [op |-> "ability_result_switch", ability |-> ability,
                          fail |-> fail, ret |-> ret, outcome |-> r.outcome,
                          value |-> r.value, reason |-> r.reason]
              /\ you' = r.you
              /\ crawl_state' = r.crawl_state
              /\ died' = (r.outcome = "Crashed")
    /\ UNCHANGED <<Options, talents, built, att>>

NextEffects == DoAbility \/ AbilityResultSwitch

SpecEffects == InitEffects /\ [][NextEffects]_vars

(***************************************************************************)
(* Properties of one attempt.                                              *)
(***************************************************************************)
Done == att.phase = "done"

TheAbility == get_ability_def(att.which)

\* C1: whenever an attempt ends Aborted, the actor's magic points, hit points,
\* hunger and piety and their maxima equal their values before the call.
C1_AbortLeavesPools ==
    (Done /\ att.outcome = "Aborted") => pools(you) = att.pre

\* an attempt aborted by a cancelled wand prompt of Quick Charge, which spends
\* MP when it goes through
C1_Witness ==
    /\ Done
    /\ att.outcome = "Aborted"
    /\ att.rolled
    /\ att.which = "ABIL_PAKELLAS_QUICK_CHARGE"
    /\ you.magic_points > 0

\* C2 as stated: cost settlement runs exactly once in every attempt that ends
\* Succeeded or Failed-but-attempted and never in one that ends Aborted.
C2_Original ==
    Done => /\ att.outcome \in {"Succeeded", "Failed"} => att.pay_calls = 1
            /\ att.outcome = "Aborted" => att.pay_calls = 0

\* C2 amended: cost settlement runs exactly once in every attempt that ends
\* Succeeded, and never in one that ends Failed-but-attempted or Aborted.
C2_SettledOnlyOnSuccess ==
    Done => /\ att.outcome = "Succeeded" => att.pay_calls = 1
            /\ att.outcome \in {"Failed", "Aborted"} =>
                   (att.pay_calls = 0 /\ att.charged = NoCharge)

\* a failed attempt at an ability that has costs
C2_Witness ==
    /\ Done
    /\ att.outcome = "Failed"
    /\ TheAbility.mp_cost > 0
    /\ TheAbility.food_cost > 0

\* C3 as stated: activate_talent returns true exactly when the outcome is
\* Succeeded or Failed-but-attempted and false exactly when it is Aborted.
C3_Original ==
    Done => /\ att.value = (att.outcome \in {"Succeeded", "Failed"})
            /\ (~att.value) = (att.outcome = "Aborted")

\* C3 amended: activate_talent returns true exactly when the outcome is
\* Succeeded, and false when it is Failed-but-attempted or Aborted.
C3_TrueOnlyOnSuccess ==
    Done => /\ att.value = (att.outcome = "Succeeded")
            /\ (~att.value) = (att.outcome \in {"Failed", "Aborted"})

\* a failed attempt, which has returned false
C3_Witness ==
    /\ Done
    /\ att.outcome = "Failed"
    /\ ~att.value
    /\ you.turn_is_over

\* C4 as stated: under a failing roll an ability flagged HOSTILE performs its
\* degraded effect and the attempt is Succeeded (skill practised, costs
\* settled); any ability without the flag ends Failed-but-attempted with no
\* effect performed.
C4_Original ==
    (Done /\ att.rolled /\ att.fail) =>
        IF "HOSTILE" \in TheAbility.flags
        THEN /\ att.outcome = "Succeeded"
             /\ att.effect = "degraded"
             /\ att.practised
             /\ att.pay_calls = 1
        ELSE /\ att.outcome = "Failed"
             /\ att.effect = "none"

\* C4 amended: under a failing roll an ability flagged HOSTILE performs its
\* degraded effect and the attempt is Succeeded (skill practised, costs
\* settled); any ability without the flag performs no effect and ends
\* Failed-but-attempted, or Aborted when its targeting is cancelled before
\* the fail check.
C4_HostileFailure ==
    (Done /\ att.rolled /\ att.fail) =>
        IF "HOSTILE" \in TheAbility.flags
        THEN /\ att.outcome = "Succeeded"
             /\ att.effect = "degraded"
             /\ att.practised
             /\ att.pay_calls = 1
        ELSE /\ att.outcome \in {"Failed", "Aborted"}
             /\ att.outcome = "Aborted" =>
                    att.which \in TargetThenFailCheck \cup TargetFailCheckThenAbort
                                  \cup DelegatedFailCheck
             /\ att.effect = "none"
             /\ ~att.practised

\* a hostile demon summoned under a failing roll
C4_Witness ==
    /\ Done
    /\ att.rolled
    /\ att.fail
    /\ att.which = "ABIL_MAKHLEB_GREATER_SERVANT_OF_MAKHLEB"
    /\ att.effect = "degraded"
    /\ att.outcome = "Succeeded"

\* C5: every attempt that ends Aborted consumes no turn: the turn-over flag is
\* not set by it and the zero-turns-taken signal is raised.
C5_AbortTakesNoTurn ==
    (Done /\ att.outcome = "Aborted") =>
        (~you.turn_is_over /\ crawl_state.zero_turns)

\* an attempt aborted by a declined confirmation prompt
C5_Witness ==
    /\ Done
    /\ att.outcome = "Aborted"
    /\ att.reason = "declined"
    /\ crawl_state.zero_turns
    /\ ~you.turn_is_over

\* the amounts the definition of the ability asks for, as settled
ExactCharge ==
    LET abil == TheAbility IN
    /\ att.charged.mp = abil.mp_cost
    /\ att.charged.hp = scaling_cost_cost(abil.hp_cost, att.pre.hp_max)
    /\ IF abil.food_cost = 0 THEN att.charged.food = 0
       ELSE att.charged.food \in abil.food_cost..(2 * abil.food_cost - 1)
    /\ \E c \in abil.piety_cost.base..
                  (abil.piety_cost.base + Max(0, abil.piety_cost.add - 1)) :
          IF crawl_state.game_is_sprint
             /\ att.which \in {"ABIL_TROG_BROTHERS_IN_ARMS",
                               "ABIL_MAKHLEB_GREATER_SERVANT_OF_MAKHLEB"}
          THEN att.charged.piety \in {(c * 5) \div 2, (c * 5 + 1) \div 2}
          ELSE att.charged.piety = c
    /\ att.which \notin PoolEffects =>
          /\ you.magic_points = att.pre.magic_points - abil.mp_cost
          /\ you.hp = att.pre.hp - scaling_cost_cost(abil.hp_cost, att.pre.hp_max)
          /\ you.max_magic_points = att.pre.max_magic_points
                                    - (IF "PERMANENT_MP" \in abil.flags /\ abil.mp_cost # 0
                                       THEN 1 ELSE 0)
          /\ you.hp_max = att.pre.hp_max

\* C6 as stated: in every attempt that is not aborted the amounts deducted
\* are exactly those of the ability's definition.
C6_Original ==
    (Done /\ att.outcome \in {"Succeeded", "Failed"}) => ExactCharge

\* C6 amended: in every attempt that ends Succeeded the amounts deducted are
\* exactly those of the ability's definition (mp_cost; hp_cost against the
\* maximum HP; food_cost plus an averaged draw in [0, food_cost - 1]; the
\* piety cost, times 2.5 in sprint for the two configured abilities), and in
\* an attempt that ends Failed-but-attempted nothing is deducted.
C6_ExactCostsOnSuccess ==
    Done => /\ att.outcome = "Succeeded" => ExactCharge
            /\ att.outcome = "Failed" => (att.charged = NoCharge /\ pools(you) = att.pre)

\* a success that paid MP, HP share, food with a non-zero draw and piety
C6_Witness ==
    /\ Done
    /\ att.outcome = "Succeeded"
    /\ att.charged.mp > 0
    /\ att.charged.food > TheAbility.food_cost
    /\ att.charged.piety > 0

\* C7 as stated: an instantaneous ability settles its costs in every
\* non-aborted attempt and leaves the turn unconsumed; for any other ability
\* the turn is consumed exactly when costs are settled.
C7_Original ==
    Done => IF "INSTANT" \in TheAbility.flags
            THEN att.outcome \in {"Succeeded", "Failed"} =>
                     (att.pay_calls = 1 /\ ~you.turn_is_over)
            ELSE you.turn_is_over = (att.pay_calls = 1)

\* C7 amended: an instantaneous ability that ends Succeeded settles its
\* costs and leaves the turn unconsumed; any other ability that ends
\* Succeeded settles its costs and consumes the turn; an attempt that ends
\* Failed-but-attempted consumes the turn without settling costs, with or
\* without the flag.
C7_TurnAndSettlement ==
    Done => /\ att.outcome = "Succeeded" =>
                   /\ att.pay_calls = 1
                   /\ you.turn_is_over = ("INSTANT" \notin TheAbility.flags)
            /\ att.outcome = "Failed" => (att.pay_calls = 0 /\ you.turn_is_over)
            /\ att.outcome = "Aborted" => (att.pay_calls = 0 /\ ~you.turn_is_over)

\* an instantaneous ability used with success: costs settled, turn not over
C7_Witness ==
    /\ Done
    /\ att.outcome = "Succeeded"
    /\ "INSTANT" \in TheAbility.flags
    /\ att.charged.mp > 0
    /\ ~you.turn_is_over

\* C13: the failure chance get_talent stores in a talent is an integer
\* from 0 to 100, whatever the actor's piety, skills, level, mutations and
\* form, and whatever the identity.
C13_FailureIsAPercentage ==
    Done => att.tal_fail \in 0..100

\* a talent whose formula gives a negative value, stored as 0
C13_Witness ==
    /\ Done
    /\ att.tal_fail = 0
    /\ talent_failure(you, att.which) < 0
    /\ talent_is_invocation(att.which)

(***************************************************************************)
(* Properties of the talents on offer.                                     *)
(***************************************************************************)
\* C8: in the list your_talents returns no two talents carry the same
\* hotkey, whatever the 52 entries of the slot table hold, a full table
\* included.
C8_Original ==
    \A i, j \in DOMAIN talents :
        i # j => talents[i].hotkey # talents[j].hotkey

\* C9: a talent offered with a slot is offered with that slot again by every
\* later your_talents call as long as nothing else changes the actor's
\* state (what the claim concludes from the reuse of bound slots).
C9_Original ==
    [][(talents # <<>> /\ talents' # <<>>) =>
          \A i \in DOMAIN talents, j \in DOMAIN talents' :
              talents[i].which = talents'[j].which
                  => talents[i].hotkey = talents'[j].hotkey]_vars

SpeciesAndMutationOffers ==
    {"ABIL_MUMMY_RESTORATION", "ABIL_RECHARGING", "ABIL_DIG", "ABIL_SHAFT_SELF",
     "ABIL_BREATHE_POISON", "ABIL_SPIT_POISON", "ABIL_TRAN_BAT", "ABIL_FLY",
     "ABIL_HELLFIRE", "ABIL_END_TRANSFORMATION", "ABIL_BLINK"}

\* the identities your_talents offers only after the religious abilities
ItemOffers ==
    {"ABIL_DELAYED_FIREBALL", "ABIL_STOP_SINGING", "ABIL_EVOKE_BLINK", "ABIL_EVOKE_FOG",
     "ABIL_EVOKE_BERSERK", "ABIL_EVOKE_TURN_VISIBLE", "ABIL_EVOKE_TURN_INVISIBLE",
     "ABIL_EVOKE_FLIGHT"}

RankExempt ==
    {get_god_powers(you.religion)[i].abil : i \in
        {n \in DOMAIN get_god_powers(you.religion) :
            get_god_powers(you.religion)[n].rank = -1}}

\* the talents that end something in progress
PendingEnd == {"ABIL_ASHENZARI_END_TRANSFER", "ABIL_STOP_RECALL"}

\* your_talents was asked for the usable talents of a silenced actor
SilencedOffer ==
    /\ call.op = "your_talents"
    /\ ~call.include_unusable
    /\ you.silenced
    /\ ~died

\* C12 as stated: when the actor is silenced and unusable talents are not
\* asked for, every invocation in the list is rank-exempt or ends something
\* pending.
C12_Original ==
    SilencedOffer =>
        \A i \in DOMAIN talents :
            talents[i].is_invocation => talents[i].which \in RankExempt \cup PendingEnd

\* C12 amended: when the actor is silenced and unusable talents are not
\* asked for, the invocations in the list are among those your_talents adds
\* apart from the god's powers (the sacrifices Ru offers and their
\* rejection, End Transfer Knowledge, Renounce Religion, Convert to Beogh);
\* no power of the god is in the list, the rank-exempt ones included.
C12_SilencedOffers ==
    SilencedOffer =>
        \A i \in DOMAIN talents :
            /\ talents[i].is_invocation =>
                  talents[i].which \in
                      {you.sacrifices[n] : n \in DOMAIN you.sacrifices}
                      \cup {"ABIL_RU_REJECT_SACRIFICES", "ABIL_ASHENZARI_END_TRANSFER",
                            "ABIL_RENOUNCE_RELIGION", "ABIL_CONVERT_TO_BEOGH"}
            /\ \A n \in DOMAIN get_god_powers(you.religion) :
                  talents[i].which \notin
                      {get_god_powers(you.religion)[n].abil,
                       fixup_ability(you, crawl_state, get_god_powers(you.religion)[n].abil)}

\* a silenced actor with a transfer of knowledge pending is offered its end
C12_Witness ==
    /\ SilencedOffer
    /\ \E i \in DOMAIN talents : talents[i].which = "ABIL_ASHENZARI_END_TRANSFER"
    /\ \E i \in DOMAIN talents : talents[i].which = "ABIL_RENOUNCE_RELIGION"

\* C19: when your_talents is called with check_confused set while the actor
\* is confused, every talent in the list has an identity flagged CONF_OK.
C19_ConfusedOffers ==
    (call.op = "your_talents" /\ call.check_confused /\ you.confused) =>
        \A i \in DOMAIN talents :
            "CONF_OK" \in get_ability_def(talents[i].which).flags

\* a confused actor is offered Draw Out Power and nothing else
C19_Witness ==
    /\ call.op = "your_talents"
    /\ call.check_confused
    /\ you.confused
    /\ ~died
    /\ Len(talents) = 1
    /\ talents[1].which = "ABIL_RU_DRAW_OUT_POWER"

(***************************************************************************)
(* Properties of the costs.                                                *)
(***************************************************************************)
\* C14: a scaling cost of magnitude m >= 0 costs ceil(m * max / 1000) of any
\* maximum max >= 0, the per-mille share rounded up.
C14_Original ==
    (call.op = "scaling_cost::cost" /\ call.built = "permille") =>
        call.result = (call.arg * call.max + 999) \div 1000

\* C15: a discrete cost with add = 0 evaluates to its base on every call,
\* and one built by range(lo, hi) with lo <= hi evaluates within [lo, hi],
\* however many rolls it averages.
C15_DiscreteCosts ==
    call.op = "generic_cost::cost" =>
        /\ call.cost.add = 0 => call.result = call.cost.base
        /\ call.built = "range" => (call.low <= call.result /\ call.result <= call.high)

\* a range of more than one value, evaluated to its upper end over several rolls
C15_Witness ==
    /\ call.op = "generic_cost::cost"
    /\ call.built = "range"
    /\ call.low < call.high
    /\ call.cost.rolls > 1
    /\ call.result = call.high

\* C16: a scaling cost built by fixed(f) with f >= 0 evaluates to f for
\* every maximum passed to cost().
C16_FixedScalingCost ==
    (call.op = "scaling_cost::cost" /\ call.built = "fixed") => call.result = call.arg

\* a fixed cost evaluated against a maximum a share of which would differ
C16_Witness ==
    /\ call.op = "scaling_cost::cost"
    /\ call.built = "fixed"
    /\ call.arg > 0
    /\ call.max > 0
    /\ call.result = call.arg
    /\ call.result # (call.arg * call.max + 500) \div 1000

(***************************************************************************)
(* Properties of the functions that read the actor's state.                *)
(***************************************************************************)
\* C17: fixup_ability is idempotent, fixup_ability(fixup_ability(x)) =
\* fixup_ability(x) for every identity and actor state, and an identity no
\* rule redirects is returned unchanged.
C17_FixupIdempotent ==
    call.op = "fixup_ability" =>
        /\ call.again = call.result
        /\ call.ability \notin Placeholders => call.result = call.ability
        /\ call.result \in {call.ability, "ABIL_NON_ABILITY", "ABIL_STOP_RECALL"}

\* a recall in progress: the recall is redirected to its end, which stays
C17_Witness ==
    /\ call.op = "fixup_ability"
    /\ call.ability = "ABIL_YRED_RECALL_UNDEAD_SLAVES"
    /\ call.result = "ABIL_STOP_RECALL"
    /\ call.again = "ABIL_STOP_RECALL"

\* the powers of the actor's god that get_god_abilities returned
ReturnedPowers ==
    {n \in DOMAIN get_god_powers(you.religion) :
        /\ get_god_powers(you.religion)[n].abil # "ABIL_NON_ABILITY"
        /\ \E i \in DOMAIN call.abilities :
              call.abilities[i] =
                  fixup_ability(you, crawl_state, get_god_powers(you.religion)[n].abil)}

C20_HungerMargin ==
    call.op = "_check_ability_possible" =>
        LET margin == you.hunger - 2 * get_ability_def(call.ability).food_cost
            checked == call.hungerCheck /\ you.undead_state = "US_ALIVE"
        IN  /\ (checked /\ margin <= 50) => ~call.ok
            /\ call.reason = "hungry" => (checked /\ margin <= 50 /\ ~call.ok)

\* hunger exactly at the margin after twice the food cost: too hungry
C20_Witness ==
    /\ call.op = "_check_ability_possible"
    /\ call.hungerCheck
    /\ get_ability_def(call.ability).food_cost > 0
    /\ you.hunger - 2 * get_ability_def(call.ability).food_cost = 50
    /\ call.reason = "hungry"

(***************************************************************************)
(* Properties of the registry.                                             *)
(***************************************************************************)
\* the places of Ability_List that hold the identity
EntriesOf(abil) ==
    {i \in 1..Len(Ability_List) : Ability_List[i].ability = abil}

\* the 'no ability' definition: no cost of any kind, no flag
IsSentinel(def) ==
    /\ def.ability = "ABIL_NON_ABILITY"
    /\ def.mp_cost = 0
    /\ def.hp_cost = scaling_cost(0)
    /\ def.food_cost = 0
    /\ def.piety_cost = generic_cost(0)
    /\ def.flags = {}

\* C21: get_ability_def returns, for every identity, the one entry of the
\* registry with that identity or, when the registry has none, the sentinel
\* 'no ability' definition, whose costs are all zero and which has no flag;
\* it has no failing path.
C21_LookupFallsBackToSentinel ==
    call.op = "get_ability_def" =>
        /\ ~died
        /\ IF EntriesOf(call.abil) # {}
           THEN /\ Cardinality(EntriesOf(call.abil)) = 1
                /\ \A i \in EntriesOf(call.abil) : call.result = Ability_List[i]
           ELSE IsSentinel(call.result)

\* an identity without an entry was looked up and the sentinel came back
C21_Witness ==
    /\ call.op = "get_ability_def"
    /\ call.abil \in UnregisteredIds
    /\ EntriesOf(call.abil) = {}
    /\ call.result = Ability_List[1]
    /\ IsSentinel(call.result)

\* two strings that differ at most in the case of their letters
SameIgnoringCase(s, t) ==
    LET fold(c) == IF c >= 97 /\ c <= 122 THEN c - 32 ELSE c
    IN  /\ Len(s) = Len(t)
        /\ \A i \in 1..Len(s) : fold(s[i]) = fold(t[i])

\* the entries whose display name is the key, ignoring case
NamedBy(key) ==
    {i \in 1..Len(Ability_List) : SameIgnoringCase(Spelling[i][2], key)}

\* C22: ability_by_name returns the identity a for every way of writing the
\* display name of a registered identity a other than the sentinel in upper
\* and lower case; it returns the sentinel for a string that is no name of
\* the registry ignoring case, and for the sentinel's own name.
C22_NameLookupIgnoresCase ==
    call.op = "ability_by_name" =>
        /\ \A i \in NamedBy(call.key) :
              IF Ability_List[i].ability = "ABIL_NON_ABILITY"
              THEN call.result = "ABIL_NON_ABILITY"
              ELSE call.result = Ability_List[i].ability
        /\ NamedBy(call.key) = {} => call.result = "ABIL_NON_ABILITY"

\* a name written otherwise than in the table was looked up and found
C22_Witness ==
    /\ call.op = "ability_by_name"
    /\ call.result = "ABIL_EVOKE_TURN_INVISIBLE"
    /\ call.key # c_str(ability_name(call.result))
    /\ call.key # lowercase_string(call.key)
    /\ SameIgnoringCase(call.key, c_str(ability_name(call.result)))

\* the identities the functions of the engine name in their own cases
NamedIds ==
    Placeholders \cup ZeroFailInvocations \cup BreathAbilities \cup WorldChecked
    \cup NoHungerCheck \cup TargetThenFailCheck \cup TargetFailCheckThenAbort
    \cup FailCheckThenAbort \cup DelegatedFailCheck \cup EvokeWithSurge
    \cup HostileOnFailure \cup PoolEffects

\* C23: Ability_List holds exactly one definition for each ability identity,
\* none twice and none missing, and its first entry is the sentinel
\* 'no ability' definition.
C23_OneDefinitionPerIdentity ==
    /\ \A i \in 1..Len(Ability_List) : EntriesOf(Ability_List[i].ability) = {i}
    /\ \A abil \in NamedIds : Cardinality(EntriesOf(abil)) = 1
    /\ call.op = "get_ability_def" /\ EntriesOf(call.abil) # {} =>
          EntriesOf(call.result.ability) = EntriesOf(call.abil)
    /\ IsSentinel(Ability_List[1])
    /\ Ability_List[1].name = "No ability"

\* the last identity of the registry was looked up and its one entry came back
C23_Witness ==
    /\ call.op = "get_ability_def"
    /\ call.abil = "ABIL_CONVERT_TO_BEOGH"
    /\ EntriesOf(call.abil) = {Len(Ability_List)}
    /\ call.result = Ability_List[Len(Ability_List)]

(***************************************************************************)
(* Properties of the effect executor and of the switch on its result.      *)
(***************************************************************************)
\* C24: _do_ability never returns SPRET_NONE, and the switch of
\* activate_talent that receives SPRET_NONE ends the program instead of
\* returning an outcome of the attempt.
C24_NoOutcomeIsFatal ==
    /\ call.op = "_do_ability" =>
          call.ret \in {"SPRET_ABORT", "SPRET_FAIL", "SPRET_SUCCESS"}
    /\ call.op = "ability_result_switch" /\ call.ret = "SPRET_NONE" =>
          /\ call.outcome = "Crashed"
          /\ call.reason = "die"
          /\ died
          /\ ~call.value
          /\ ~you.turn_is_over
          /\ ~crawl_state.zero_turns

\* the switch was given SPRET_NONE and the program died
C24_Witness ==
    /\ call.op = "ability_result_switch"
    /\ call.ret = "SPRET_NONE"
    /\ call.outcome = "Crashed"
    /\ died

(***************************************************************************)
(* Where an attempt can still be cancelled.                                *)
(***************************************************************************)
\* C25 as stated: no attempt ends Aborted once the failure roll is drawn.
C25_Original ==
    Done /\ att.outcome = "Aborted" => ~att.rolled

\* C25: an attempt is Aborted before the failure roll by a failed pre-check
\* or an insufficient resource, and after the roll only by the effect
\* executor returning SPRET_ABORT (a cancelled target or sub-prompt, a
\* redundant attempt); either way nothing is charged and the call returns
\* false without a turn spent.
C25_AbortsAroundTheRoll ==
    Done /\ att.outcome = "Aborted" =>
        /\ att.rolled <=> att.reason = "cancelled"
        /\ att.pay_calls = 0
        /\ att.charged = NoCharge
        /\ ~att.value
        /\ crawl_state.zero_turns

\* the roll came out as a failure and the target prompt was cancelled after it
C25_Witness ==
    /\ Done
    /\ att.outcome = "Aborted"
    /\ att.rolled
    /\ att.fail
    /\ att.which \in TargetThenFailCheck
    /\ att.reason = "cancelled"

(***************************************************************************)
(* Placeholders and the talents made from them.                            *)
(***************************************************************************)
\* C26: the talent made for an identity x carries the failure percentage
\* and the invocation flag of the identity fixup_ability(x) resolves to:
\* whenever that identity is not the sentinel, get_talent(x) and
\* get_talent(fixup_ability(x)) agree on both.
C26_Original ==
    call.op = "get_talent" /\ call.resolved # "ABIL_NON_ABILITY" =>
        /\ call.tal.fail = call.of_resolved.fail
        /\ call.tal.is_invocation = call.of_resolved.is_invocation

\* the active powers of the actor's god that fixup_ability turns into
\* 'no ability' in the current state
RedirectedAway ==
    {power.abil : power \in
        {get_god_powers(you.religion)[i] : i \in DOMAIN get_god_powers(you.religion)}}
    \cap {abil \in Placeholders : fixup_ability(you, crawl_state, abil) = "ABIL_NON_ABILITY"}

\* C27: when fixup_ability resolves a power of the actor's god to 'no
\* ability' in the current state, get_god_abilities completes normally and
\* leaves that power out of what it returns.
C27_Original ==
    call.op = "get_god_abilities" /\ RedirectedAway # {} =>
        /\ ~died
        /\ \A i \in DOMAIN call.abilities :
              call.abilities[i] \notin RedirectedAway \cup {"ABIL_NON_ABILITY"}

(***************************************************************************)
(* The search for a free hotkey at the end of your_talents.                *)
(***************************************************************************)
\* C28: the loop that looks for a free hotkey at the end of your_talents
\* comes to an end for every talent and every content of the slot table
\* without evaluating a slot index outside 0..51: once the list of talents
\* is built, your_talents returns it.
C28_Original ==
    call.op = "your_talents" /\ built # <<>> => ~died

(***************************************************************************)
(* The assertion of the SPRET_SUCCESS case.                                *)
(***************************************************************************)
\* C29: "ASSERT(!fail || testbits(abil.flags, abflag::HOSTILE))" holds in
\* every attempt: whenever _do_ability returns SPRET_SUCCESS although the
\* roll indicated failure, the ability carries the HOSTILE flag, so no
\* attempt ends in the failed assertion.
C29_SuccessAssertHolds ==
    (Done /\ att.rolled) =>
        /\ att.outcome # "Crashed"
        /\ ~died
        /\ (att.outcome = "Succeeded" /\ att.fail) => "HOSTILE" \in TheAbility.flags

\* a summons of Makhleb succeeded on a failed roll and passed the assertion
C29_Witness ==
    /\ Done
    /\ att.rolled
    /\ att.fail
    /\ att.outcome = "Succeeded"
    /\ att.which = "ABIL_MAKHLEB_LESSER_SERVANT_OF_MAKHLEB"
    /\ "HOSTILE" \in TheAbility.flags
    /\ ~died

(***************************************************************************)
(* The order of the tests of _check_ability_possible.                      *)
(***************************************************************************)
\* the first test of _check_ability_possible that turns the call away in the
\* current state, in the order berserk, confusion, silence, hunger margin,
\* innate magic, confirmation, the ability's own test
FirstRefusal(abil, hungerCheck) ==
    IF you.berserk THEN "berserk"
    ELSE IF you.confused /\ "CONF_OK" \notin abil.flags THEN "confused"
    ELSE IF you.silenced /\ talent_is_invocation(abil.ability) THEN "silenced"
    ELSE IF hungerCheck /\ you.undead_state = "US_ALIVE" /\ you.hunger - abil.food_cost * 2 <= 50 THEN "hungry"
    ELSE IF "PERMANENT_MP" \in abil.flags /\ get_real_mp(you) < abil.mp_cost
    THEN "innate_mp"
    ELSE "none"

\* C30: _check_ability_possible tests, in this order, berserk, confusion,
\* silence, the hunger margin, the innate magic capacity, the confirmation
\* prompt and the ability's own condition; the first test that fails gives
\* the result and the reason, and no later test is made: the player is not
\* asked to confirm an ability that an earlier test has turned away.
C30_FixedOrderOfChecks ==
    call.op = "_check_ability_possible" /\ ~died =>
        IF FirstRefusal(get_ability_def(call.ability), call.hungerCheck) # "none"
        THEN /\ ~call.ok
             /\ call.reason = FirstRefusal(get_ability_def(call.ability), call.hungerCheck)
             /\ ~call.prompted
        ELSE /\ call.prompted <=> (\E i \in 1..Len(Options.confirm_action) :
                                     matches(Options.confirm_action[i],
                                             get_ability_def(call.ability).ability))
             /\ call.reason \in (IF call.ok THEN {""}
                                 ELSE IF call.prompted THEN {"declined", "specific"}
                                 ELSE {"specific"})

\* a berserk, confused, silenced and starving worshipper with every ability
\* set to be confirmed is turned away for being berserk, and is not asked
C30_Witness ==
    /\ call.op = "_check_ability_possible"
    /\ you.berserk /\ you.confused /\ you.silenced
    /\ call.hungerCheck /\ you.hunger = 50
    /\ Options.confirm_action # <<>>
    /\ call.ability = "ABIL_TROG_BERSERK"
    /\ ~call.ok
    /\ call.reason = "berserk"
    /\ ~call.prompted

(***************************************************************************)
(* Failed attempts and the roll.                                           *)
(***************************************************************************)
\* C31 as stated: an attempt ends Failed only if the failure roll indicated
\* failure, so a talent with a failure of 0 never ends Failed.
C31_Original ==
    (Done /\ att.outcome = "Failed") => (att.fail /\ att.tal_fail > 0)

\* C31: an attempt ends Failed only after the roll, and only if the roll
\* indicated failure or the ability is one of the four evocations whose
\* device surge can fail after a passing roll; the roll indicates failure
\* only for a talent whose failure is above 0, so a talent with a failure of
\* 0 ends Failed only through a failed surge.
C31_FailedByRollOrSurge ==
    Done =>
        /\ att.fail => (att.rolled /\ att.tal_fail > 0)
        /\ att.outcome = "Failed" =>
              /\ att.rolled
              /\ att.fail \/ att.which \in EvokeWithSurge

\* a talent that cannot fail its roll ended Failed through the device surge
C31_Witness ==
    /\ Done
    /\ att.outcome = "Failed"
    /\ att.rolled
    /\ ~att.fail
    /\ att.tal_fail = 0
    /\ att.which = "ABIL_EVOKE_BERSERK"

(***************************************************************************)
(* Costs the actor cannot cover.                                           *)
(***************************************************************************)
\* the ability of the attempt asks for more magic than the actor had, or for
\* hit points the actor could not pay and live
Unaffordable ==
    \/ TheAbility.mp_cost > 0 /\ att.pre.magic_points < TheAbility.mp_cost
    \/ /\ scaling_cost_cost(TheAbility.hp_cost, att.pre.hp_max) > 0
       /\ att.pre.hp <= scaling_cost_cost(TheAbility.hp_cost, att.pre.hp_max)

\* C32: an attempt at an ability whose magic cost is above zero and above
\* the actor's magic points, or whose hit-point cost evaluated on the
\* maximum is above zero and not covered by the hit points, ends Aborted:
\* no turn is spent, the failure roll is not made, no effect is dispatched
\* and nothing is paid.
C32_UnaffordableAborts ==
    (Done /\ Unaffordable) =>
        /\ att.outcome = "Aborted"
        /\ ~att.value
        /\ ~att.rolled
        /\ att.effect = "none"
        /\ att.pay_calls = 0
        /\ pools(you) = att.pre
        /\ ~you.turn_is_over
        /\ crawl_state.zero_turns

\* an attempt stopped at the hit-point test, with magic to spare and no
\* other obstacle
C32_Witness ==
    /\ Done
    /\ Unaffordable
    /\ att.reason = "no_hp"
    /\ att.pre.magic_points >= TheAbility.mp_cost
    /\ att.pre.hp > 1
    /\ att.outcome = "Aborted"

(***************************************************************************)
(* Permanent costs.                                                        *)
(***************************************************************************)
\* C33: when an ability with a permanent cost is settled, the maximum of
\* the pool goes down by the amount taken from the pool: by mp_cost for
\* PERMANENT_MP, by the hit-point cost evaluated on the maximum for
\* PERMANENT_HP.
C33_PermanentCosts ==
    (Done /\ att.outcome = "Succeeded") =>
        /\ ("PERMANENT_MP" \in TheAbility.flags /\ TheAbility.mp_cost # 0) =>
              /\ att.charged.rot_mp = att.charged.mp
              /\ att.charged.mp = TheAbility.mp_cost
              /\ att.pre.max_magic_points - you.max_magic_points = TheAbility.mp_cost
              /\ att.pre.magic_points - you.magic_points = TheAbility.mp_cost
        /\ ("PERMANENT_HP" \in TheAbility.flags /\ TheAbility.hp_cost.value # 0) =>
              /\ att.charged.rot_hp = att.charged.hp
              /\ att.charged.hp = scaling_cost_cost(TheAbility.hp_cost, att.pre.hp_max)
              /\ att.pre.hp_max - you.hp_max = att.charged.hp
        /\ "PERMANENT_MP" \notin TheAbility.flags => att.charged.rot_mp = 0
        /\ "PERMANENT_HP" \notin TheAbility.flags => att.charged.rot_hp = 0

\* a device was recharged for one point of magic, gone from the pool and
\* from its maximum
C33_Witness ==
    /\ Done
    /\ att.outcome = "Succeeded"
    /\ att.which = "ABIL_RECHARGING"
    /\ "PERMANENT_MP" \in TheAbility.flags
    /\ att.charged.rot_mp = 1
    /\ you.max_magic_points = att.pre.max_magic_points - 1
    /\ you.magic_points = att.pre.magic_points - 1

(***************************************************************************)
(* What _check_ability_possible says and touches.                          *)
(***************************************************************************)
\* C34: called with quiet set, _check_ability_possible emits no message and
\* asks nothing, whichever of its tests turns the ability away.
C34_Original ==
    call.op = "_check_ability_possible" /\ call.quiet /\ ~died =>
        /\ call.msg = ""
        /\ ~call.prompted

\* C35: check_ability_possible given an identity that is not registered
\* goes on with the sentinel definition and ends without a fatal error or a
\* failed assertion, in every state of the actor, silenced included.
C35_Original ==
    call.op = "_check_ability_possible" /\ call.ability \in UnregisteredIds => ~died

(***************************************************************************)
(* The letters on their own: the slot table from the start of a game,      *)
(* through the calls that assign, look up and move letters, while the      *)
(* actor's state changes between them.                                     *)
(***************************************************************************)
\* the actors whose letters are followed
LetterActors ==
    {[Player EXCEPT !.religion = "GOD_YREDELEMNUL", !.piety = 60],
     [Player EXCEPT !.species = "SP_NAGA",
                    !.mutation = [MUT_SPIT_POISON |-> 1, MUT_BLINK |-> 1]]}

\* the abilities get_talent is asked about
LetterAbilities ==
    {"ABIL_YRED_RECALL_UNDEAD_SLAVES", "ABIL_SPIT_POISON"}

InitLetters ==
    /\ you \in LetterActors
    /\ crawl_state = [game_is_sprint |-> FALSE, zero_turns |-> FALSE, brdepth_abyss |-> 1]
    /\ Options \in {[confirm_action |-> <<>>, auto_ability_letters |-> rules] :
                       rules \in SlotRules}
    /\ talents = <<>>
    /\ built = <<>>
    /\ died = FALSE
    /\ att = NoAttempt
    /\ call = NoCall

\* get_talent asks for the letter of the ability it resolved:
\* find_ability_slot(abil.ability)
FindAbilitySlot ==
    /\ ~died
    /\ \E ability \in LetterAbilities :
          \E abil \in {get_ability_def(fixup_ability(you, crawl_state, ability)).ability} :
              \E found \in {find_ability_slot(you, crawl_state, Options, abil, 102)} :
                  /\ you' = [you EXCEPT !.ability_letter_table = found.table]
                  /\ call' = [op |-> "find_ability_slot", abil |-> abil,
                              slot |-> found.slot]
    /\ talents' = <<>>
    /\ built' = <<>>
    /\ UNCHANGED <<crawl_state, Options, att, died>>

\* the rules of Options.auto_ability_letters are applied to an assigned
\* letter again: auto_assign_ability_slot(slot)
AutoAssignAbilitySlot ==
    /\ ~died
    /\ \E slot \in {s \in 0..51 : you.ability_letter_table[s] # "ABIL_NON_ABILITY"} :
          \E moved \in {auto_assign_ability_slot(you.ability_letter_table,
                                                 Options.auto_ability_letters, slot)} :
              /\ you' = [you EXCEPT !.ability_letter_table = moved.table]
              /\ call' = [op |-> "auto_assign_ability_slot", slot |-> slot,
                          index |-> moved.slot]
    /\ talents' = <<>>
    /\ built' = <<>>
    /\ UNCHANGED <<crawl_state, Options, att, died>>

\* a recall of the god's followers begins or ends
Recall ==
    /\ ~died
    /\ you.religion = "GOD_YREDELEMNUL"
    /\ you' = [you EXCEPT !.recall_list = IF @ = <<>> THEN <<1>> ELSE <<>>]
    /\ talents' = <<>>
    /\ built' = <<>>
    /\ call' = NoCall
    /\ UNCHANGED <<crawl_state, Options, att, died>>

NextLetters ==
    \/ FindAbilitySlot
    \/ AutoAssignAbilitySlot
    \/ YourTalents
    \/ SwapAbilitySlots
    \/ Recall

SpecLetters == InitLetters /\ [][NextLetters]_vars

\* C36: from an empty slot table, whatever find_ability_slot,
\* auto_assign_ability_slot, swap_ability_slots and your_talents do, no
\* identity other than the sentinel holds two letters, and the letter
\* find_ability_slot returns holds an identity that resolves to the one
\* asked for.
C36_OneLetterPerAbility ==
    /\ \A s1, s2 \in 0..51 :
          s1 # s2 /\ you.ability_letter_table[s1] # "ABIL_NON_ABILITY"
              => you.ability_letter_table[s1] # you.ability_letter_table[s2]
    /\ call.op = "find_ability_slot" /\ call.slot >= 0
          => fixup_ability(you, crawl_state, you.ability_letter_table[call.slot]) = call.abil

\* a recall is under way, the letter of the recall is returned for Stop
\* Recall, and several letters are assigned
C36_Witness ==
    /\ call.op = "find_ability_slot"
    /\ call.slot >= 0
    /\ call.abil = "ABIL_STOP_RECALL"
    /\ you.ability_letter_table[call.slot] = "ABIL_YRED_RECALL_UNDEAD_SLAVES"
    /\ Cardinality({s \in 0..51 : you.ability_letter_table[s] # "ABIL_NON_ABILITY"}) >= 3

\* C37: check_ability_possible only asks: in every state of the actor,
\* silenced included, a call that returns leaves the magic, the hit points,
\* the hunger and the slot table as they were.
C37_Original ==
    [][call'.op = "_check_ability_possible" /\ ~died'
          => /\ you'.magic_points = you.magic_points
             /\ you'.hp = you.hp
             /\ you'.hunger = you.hunger
             /\ you'.ability_letter_table = you.ability_letter_table]_vars

(***************************************************************************)
(* The hunger margin after settlement.                                     *)
(***************************************************************************)
\* the hunger the settlement of the attempt took from the actor
HungerCharged == att.pre.hunger - you.hunger

\* an attempt of a living actor, with the hunger check, that was settled
SettledWithHungerCheck ==
    /\ Done
    /\ att.pay_calls = 1
    /\ att.which \notin NoHungerCheck
    /\ you.undead_state = "US_ALIVE"

\* C38 as stated: the hunger charged is at most 2 * food_cost - 1, strictly
\* less than the 2 * food_cost the pre-check projected, and the hunger
\* after settlement is above 50.
C38_Original ==
    SettledWithHungerCheck =>
        /\ HungerCharged <= 2 * TheAbility.food_cost - 1
        /\ HungerCharged < 2 * TheAbility.food_cost
        /\ you.hunger > 50

\* C38: for a living actor and an ability with the hunger check, the hunger
\* charged at settlement is at most 2 * food_cost - 1 when food_cost is
\* positive and nothing when it is zero, so it never exceeds the
\* 2 * food_cost the pre-check projected, and the hunger after settlement
\* is above 50.
C38_HungerStaysAboveMargin ==
    SettledWithHungerCheck =>
        /\ HungerCharged = att.charged.food
        /\ TheAbility.food_cost > 0 => HungerCharged <= 2 * TheAbility.food_cost - 1
        /\ TheAbility.food_cost = 0 => HungerCharged = 0
        /\ HungerCharged <= 2 * TheAbility.food_cost
        /\ you.hunger > 50

\* the pre-check let the attempt through one point above the margin, the
\* settlement charged the most it can, and the hunger ended just above 50
C38_Witness ==
    /\ SettledWithHungerCheck
    /\ TheAbility.food_cost > 0
    /\ att.pre.hunger - 2 * TheAbility.food_cost = 51
    /\ HungerCharged = 2 * TheAbility.food_cost - 1
    /\ you.hunger = 52

(***************************************************************************)
(* The spell memory: you.spells, you.spell_letter_table and you.spell_no,  *)
(* kept by add_spell_to_memory and del_spell_from_memory.                  *)
(***************************************************************************)
\* the size of you.spells
MAX_KNOWN_SPELLS == 21

\* spell_type: the spells are numbered, SPELL_NO_SPELL first
SPELL_NO_SPELL == 0

\* the player with nothing memorised
EmptyMemory ==
    [spells |-> [i \in 0..(MAX_KNOWN_SPELLS - 1) |-> SPELL_NO_SPELL],
     spell_letter_table |-> [j \in 0..51 |-> -1],
     spell_no |-> 0]

\* the spells there are to learn: enough to fill the memory, and one more
Spells == 1..(MAX_KNOWN_SPELLS + 1)

\* the spell the rule of Options.auto_spell_letters names
RuleSpell == 5

\* the spells that are forgotten again
Forgettable == {1, RuleSpell}

\* Options.auto_spell_letters: no rule, or "spell_slot += <title>:+a" for
\* the title of RuleSpell
SpellRules ==
    {<<>>, <<[first |-> {RuleSpell}, second |-> <<43, 97>>]>>}

\* The rules of add_spell_to_memory: the label chosen by
\* Options.auto_spell_letters, -1 when no rule gives one.  The spell whose
\* label a rule may take is named by spell_title(existing), with existing
\* the number of a memory slot read as a spell_type.
RECURSIVE auto_spell_letter(_, _, _, _, _, _)
auto_spell_letter(table, opts, spell, m, k, overwrite) ==
    IF m > Len(opts) THEN -1
    ELSE IF ~matches(opts[m].first, spell) \/ k > Len(opts[m].second)
    THEN auto_spell_letter(table, opts, spell, m + 1, 1, overwrite)
    ELSE LET ch == opts[m].second[k]
             slot == letter_to_index(ch)
             existing == table[slot]
         IN  IF ch = 43
             THEN auto_spell_letter(table, opts, spell, m, k + 1, TRUE)
             ELSE IF ch = 45
             THEN auto_spell_letter(table, opts, spell, m, k + 1, FALSE)
             ELSE IF ~isaalpha(ch)
             THEN auto_spell_letter(table, opts, spell, m, k + 1, overwrite)
             ELSE IF existing = -1 THEN slot
             ELSE IF overwrite /\ ~matches(opts[m].first, existing) THEN slot
             ELSE auto_spell_letter(table, opts, spell, m, k + 1, overwrite)

\* the first index of a table that holds the value, or the end of the
\* table when none does
first_holding(table, last, value) ==
    LET found == {j \in 0..last : table[j] = value}
    IN  IF found = {} THEN last + 1
        ELSE CHOOSE j \in found : \A other \in found : j <= other

\* add_spell_to_memory(spell): the states it can end in.  With no slot left
\* you.spells[MAX_KNOWN_SPELLS] is written: the bounds check of the vector
\* ends the game, or, in a build without it, the write lands outside the
\* memory.
add_spell_to_memory(y, opts, spell) ==
    LET i == first_holding(y.spells, MAX_KNOWN_SPELLS - 1, SPELL_NO_SPELL)
        past_end == i >= MAX_KNOWN_SPELLS
        spells == IF past_end THEN y.spells ELSE [y.spells EXCEPT ![i] = spell]
        chosen == auto_spell_letter(y.spell_letter_table, opts, spell, 1, 1, FALSE)
        j == IF chosen # -1 THEN chosen ELSE first_holding(y.spell_letter_table, 51, -1)
        free == first_holding(y.spell_letter_table, 51, -1)
        moved == IF y.spell_letter_table[j] # -1 /\ free <= 51
                 THEN [y.spell_letter_table EXCEPT ![free] = y.spell_letter_table[j]]
                 ELSE y.spell_letter_table
        after == [y EXCEPT !.spells = spells,
                           !.spell_letter_table = [moved EXCEPT ![j] = i],
                           !.spell_no = @ + 1]
    IN  IF past_end
        THEN {[you |-> y, crashed |-> TRUE, past_end |-> TRUE, slot |-> i],
              [you |-> after, crashed |-> FALSE, past_end |-> TRUE, slot |-> i]}
        ELSE {[you |-> after, crashed |-> FALSE, past_end |-> FALSE, slot |-> i]}

\* del_spell_from_memory_by_slot(slot)
del_spell_from_memory_by_slot(y, slot) ==
    [y EXCEPT !.spells = [@ EXCEPT ![slot] = SPELL_NO_SPELL],
              !.spell_letter_table = [j \in 0..51 |-> IF @[j] = slot THEN -1 ELSE @[j]],
              !.spell_no = @ - 1]

\* del_spell_from_memory(spell): [you, value]
del_spell_from_memory(y, spell) ==
    LET i == first_holding(y.spells, MAX_KNOWN_SPELLS - 1, spell)
    IN  IF i >= MAX_KNOWN_SPELLS THEN [you |-> y, value |-> FALSE]
        ELSE [you |-> del_spell_from_memory_by_slot(y, i), value |-> TRUE]

InitSpells ==
    /\ you = EmptyMemory
    /\ crawl_state = [game_is_sprint |-> FALSE, zero_turns |-> FALSE, brdepth_abyss |-> 1]
    /\ Options \in {[confirm_action |-> <<>>, auto_ability_letters |-> <<>>,
                       auto_spell_letters |-> rules] : rules \in SpellRules}
    /\ talents = <<>>
    /\ built = <<>>
    /\ died = FALSE
    /\ att = NoAttempt
    /\ call = NoCall

\* the spells on offer to a player who learns them in the order of their
\* numbers, the spell of the rule at any time
NextToLearn ==
    LET unknown == {spell \in Spells : \A i \in DOMAIN you.spells : you.spells[i] # spell}
    IN  {spell \in unknown : spell = RuleSpell \/ \A other \in unknown : spell <= other}

\* a spell that is not known is memorised: add_spell_to_memory(spell)
AddSpellToMemory ==
    /\ ~died
    /\ you.spell_no <= MAX_KNOWN_SPELLS
    /\ \E spell \in NextToLearn :
          \E r \in add_spell_to_memory(you, Options.auto_spell_letters, spell) :
              /\ you' = r.you
              /\ died' = r.crashed
              /\ call' = [op |-> "add_spell_to_memory", spell |-> spell, slot |-> r.slot,
                          past_end |-> r.past_end]
    /\ UNCHANGED <<crawl_state, Options, talents, built, att>>

\* a spell is forgotten: del_spell_from_memory(spell)
DelSpellFromMemory ==
    /\ ~died
    /\ \E spell \in Forgettable :
          \E r \in {del_spell_from_memory(you, spell)} :
              /\ you' = r.you
              /\ call' = [op |-> "del_spell_from_memory", spell |-> spell,
                          value |-> r.value]
    /\ UNCHANGED <<crawl_state, Options, talents, built, att, died>>

NextSpells == AddSpellToMemory \/ DelSpellFromMemory

SpecSpells == InitSpells /\ [][NextSpells]_vars

\* the memory slots that hold a spell
OccupiedSlots ==
    {i \in 0..(MAX_KNOWN_SPELLS - 1) : you.spells[i] # SPELL_NO_SPELL}

\* C39: whatever add_spell_to_memory and del_spell_from_memory were called
\* with since the empty memory, the spell counter is the number of occupied
\* memory slots, each occupied slot has exactly one letter, no letter names
\* an empty slot, and nothing was written past the last memory slot.
C39_Original ==
    /\ ~died
    /\ call.op = "add_spell_to_memory" => ~call.past_end
    /\ you.spell_no = Cardinality(OccupiedSlots)
    /\ \A i \in OccupiedSlots :
          Cardinality({j \in 0..51 : you.spell_letter_table[j] = i}) = 1
    /\ \A j \in 0..51 :
          you.spell_letter_table[j] # -1 => you.spell_letter_table[j] \in OccupiedSlots

====
